---------------------------- MODULE Spec2Model ----------------------------
(***************************************************************************)
(* Weekly shop-floor planning (src/etl.py): the task pool builder, the     *)
(* greedy day scheduler and the weekly proposal generator.                 *)
(*                                                                         *)
(* Units.  A calendar date is its day number counted from 2025-01-01       *)
(* (day 0, a Wednesday).  A datetime is a number of minutes counted from   *)
(* 2025-01-01 00:00.  A duration in hours (a Python float) is a whole      *)
(* number of 1/10000 of an hour, so that round(x, 2) and int(x * 60)      *)
(* are real conversions; a duration in minutes is a whole number.          *)
(***************************************************************************)
EXTENDS Integers, Sequences, FiniteSets, TLC

(***************************************************************************)
(* Program constants                                                       *)
(***************************************************************************)
TIME_STEP_MIN == 15

\* START_TIME = time(8, 0), in minutes after midnight
START_TIME == 480

\* base_minutes of a Monday..Thursday
BaseMinutesMonThu == 480

\* base_minutes of a Friday
BaseMinutesFri == 360

\* range(5): the weekdays generate_weekly_proposals walks through, and the
\* factor that sizes the weekly pool
DaysPerWeek == 5

(***************************************************************************)
(* Bounds of the model                                                     *)
(***************************************************************************)
\* n_proposals is drawn from 1..MaxProposals
MaxProposals == 2

\* ten-thousandths in one hour, minutes in one day
HourUnits == 10000

MinutesPerDay == 1440

(***************************************************************************)
(* Calendar: datetime.date arithmetic                                      *)
(***************************************************************************)
EpochYear == 2025

IsLeap(y) == (y % 4 = 0) /\ ((y % 100 # 0) \/ (y % 400 = 0))

DaysInMonth(y, m) ==
    IF m \in {4, 6, 9, 11} THEN 30
    ELSE IF m = 2 THEN (IF IsLeap(y) THEN 29 ELSE 28)
    ELSE 31

RECURSIVE DaysBeforeMonth(_, _)
DaysBeforeMonth(y, m) ==
    IF m = 1 THEN 0 ELSE DaysBeforeMonth(y, m - 1) + DaysInMonth(y, m - 1)

RECURSIVE DaysBeforeYear(_)
DaysBeforeYear(y) ==
    IF y = EpochYear THEN 0
    ELSE DaysBeforeYear(y - 1) + (IF IsLeap(y - 1) THEN 366 ELSE 365)

\* date(year, month, day)
MkDate(y, m, d) == DaysBeforeYear(y) + DaysBeforeMonth(y, m) + (d - 1)

\* d.year
RECURSIVE YearFrom(_, _)
YearFrom(d, y) ==
    IF d < DaysBeforeYear(y + 1) THEN y ELSE YearFrom(d, y + 1)

YearOf(d) == YearFrom(d, EpochYear)

\* d.month
RECURSIVE MonthFrom(_, _, _)
MonthFrom(d, y, m) ==
    IF d < MkDate(y, m, 1) + DaysInMonth(y, m) THEN m ELSE MonthFrom(d, y, m + 1)

MonthOf(d) == MonthFrom(d, YearOf(d), 1)

\* d.weekday(): Monday is 0, Sunday is 6; 2025-01-01 is a Wednesday
Weekday(d) == (d + 2) % 7

\* dt_combine(d, t)
dt_combine(d, t) == d * MinutesPerDay + t

\* the date of a datetime
DateOfDt(dt) == dt \div MinutesPerDay

\* week_monday(d)
week_monday(d) == d - Weekday(d)

\* business_days_in_month(year, month): the loop from the 1st while d.month = month
RECURSIVE BizDaysFrom(_, _, _)
BizDaysFrom(d, last, acc) ==
    IF d > last THEN acc
    ELSE BizDaysFrom(d + 1, last, IF Weekday(d) < 5 THEN Append(acc, d) ELSE acc)

business_days_in_month(y, m) ==
    BizDaysFrom(MkDate(y, m, 1), MkDate(y, m, 1) + DaysInMonth(y, m) - 1, << >>)

(***************************************************************************)
(* Number conversions                                                      *)
(***************************************************************************)
Max(a, b) == IF a >= b THEN a ELSE b

Min(a, b) == IF a <= b THEN a ELSE b

\* ceil(a / b) for a >= 0, b > 0
CeilDiv(a, b) == (a + b - 1) \div b

\* int(duration_h * 60): hours to whole minutes, truncating (duration_h >= 0)
HoursToMinutesInt(h) == (h * 60) \div HourUnits

\* minutes / 60.0: whole minutes to hours.  Every value it is applied to is a
\* multiple of TIME_STEP_MIN, for which the quotient is exact.
MinutesToHours(m) == (m * HourUnits) \div 60

\* round(x, 2): to the nearest hundredth of an hour, a tie going to the even
\* hundredth.  No value the calls below round lies on a tie, where the result
\* of the float operation depends on the binary representation.
Round2(h) ==
    LET q == h \div 100
        r == h % 100
    IN  IF r < 50 THEN q * 100
        ELSE IF r > 50 THEN (q + 1) * 100
        ELSE IF q % 2 = 0 THEN q * 100 ELSE (q + 1) * 100

\* mutant: the duration is not rounded up to the step
round_up_to_step_unrounded(minutes, step) == minutes

\* round_up_to_step(minutes, step)
round_up_to_step(minutes, step) == CeilDiv(minutes, step) * step


(***************************************************************************)
(* Tables.  A table is a sequence of rows (records); the identifiers are   *)
(* strings.  KeyOrder is the order of the (Product, Subsystem) keys that   *)
(* groupby sorts by.                                                       *)
(***************************************************************************)
Operators == {"op1", "op2"}

Workcells == {"W1", "W2"}

KeyOrder == << <<"P1", "S1">>, <<"P1", "S2">>, <<"P1", "S3">> >>

\* the value pandas gives a column of a left merge that found no match
NaN == "NaN"

None == << >>

Key(row) == <<row.Product, row.Subsystem>>

RECURSIVE SeqSum(_)
SeqSum(s) == IF s = << >> THEN 0 ELSE Head(s) + SeqSum(Tail(s))

RECURSIVE Concat(_)
Concat(ss) == IF ss = << >> THEN << >> ELSE Head(ss) \o Concat(Tail(ss))

\* Series.unique(): the distinct values in order of first appearance
RECURSIVE Unique(_)
Unique(s) ==
    IF s = << >> THEN << >>
    ELSE LET rest == Unique(SubSeq(s, 1, Len(s) - 1))
             x == s[Len(s)]
         IN  IF \E n \in 1..Len(rest) : rest[n] = x THEN rest ELSE Append(rest, x)

\* the rows of a table that match a (Product, Subsystem) key, in table order
Matching(table, key) == SelectSeq(table, LAMBDA r : Key(r) = key)

\* remaining.merge(data["times"], on=[Product, Subsystem], how="left"): a left
\* row comes out once per matching row of the time table, once if none matches
MergeTimes(remaining, times) ==
    Concat([n \in 1..Len(remaining) |->
        LET m == Matching(times, Key(remaining[n]))
        IN  IF m = << >> THEN << remaining[n] >>
            ELSE [x \in 1..Len(m) |-> remaining[n]]])

\* tasks.merge(stations[[Product, Subsystem, Workcell]], how="left"): adds the
\* Workcell column, NaN where the station table has no row for the key
MergeStations(tasks, stations) ==
    Concat([n \in 1..Len(tasks) |->
        LET m == Matching(stations, Key(tasks[n]))
            row(wc) == [Product |-> tasks[n].Product, Subsystem |-> tasks[n].Subsystem,
                        RemainingTime |-> tasks[n].RemainingTime, Workcell |-> wc]
        IN  IF m = << >> THEN << row(NaN) >>
            ELSE [x \in 1..Len(m) |-> row(m[x].Workcell)]])

\* sort_values("RemainingTime", ascending=False): rows of equal RemainingTime
\* keep their order (pandas sorts the reversed column and reverses the result)
RECURSIVE InsertByRemaining(_, _)
InsertByRemaining(sorted, row) ==
    IF sorted = << >> THEN << row >>
    ELSE IF Head(sorted).RemainingTime >= row.RemainingTime
         THEN << Head(sorted) >> \o InsertByRemaining(Tail(sorted), row)
         ELSE << row >> \o sorted

RECURSIVE SortByRemainingDesc(_)
SortByRemainingDesc(rows) ==
    IF rows = << >> THEN << >>
    ELSE InsertByRemaining(SortByRemainingDesc(SubSeq(rows, 1, Len(rows) - 1)),
                           rows[Len(rows)])

\* list.sort() of (start, end) tuples
IntervalLE(a, b) == a[1] < b[1] \/ (a[1] = b[1] /\ a[2] <= b[2])

RECURSIVE InsertInterval(_, _)
InsertInterval(sorted, iv) ==
    IF sorted = << >> THEN << iv >>
    ELSE IF IntervalLE(Head(sorted), iv)
         THEN << Head(sorted) >> \o InsertInterval(Tail(sorted), iv)
         ELSE << iv >> \o sorted

RECURSIVE SortIntervals(_)
SortIntervals(ivs) ==
    IF ivs = << >> THEN << >>
    ELSE InsertInterval(SortIntervals(SubSeq(ivs, 1, Len(ivs) - 1)), ivs[Len(ivs)])

\* dict.get(op, 0)
Get(d, op) == IF op \in DOMAIN d THEN d[op] ELSE 0

\* sorted(cand_ops, key=avail_min_per_op.get, reverse=True): stable
RECURSIVE InsertByAvail(_, _, _)
InsertByAvail(sorted, op, avail) ==
    IF sorted = << >> THEN << op >>
    ELSE IF Get(avail, Head(sorted)) >= Get(avail, op)
         THEN << Head(sorted) >> \o InsertByAvail(Tail(sorted), op, avail)
         ELSE << op >> \o sorted

\* mutant: the candidates are left in the order of the training table
SortByAvailDesc_table_order(ops, avail) == ops

RECURSIVE SortByAvailDesc(_, _)
SortByAvailDesc(ops, avail) ==
    IF ops = << >> THEN << >>
    ELSE InsertByAvail(SortByAvailDesc(SubSeq(ops, 1, Len(ops) - 1), avail),
                       ops[Len(ops)], avail)

(***************************************************************************)
(* Demand / tasks                                                          *)
(***************************************************************************)
\* mutant: the month is not compared
MonthDemand_year_only(demand_df, year, month) ==
    SelectSeq(demand_df, LAMBDA r : r.Year = year)

\* demand_df[(Year == year) & (Month == month)]
MonthDemand(demand_df, year, month) ==
    SelectSeq(demand_df, LAMBDA r : r.Year = year /\ r.Month = month)

\* times_df.groupby("Product")["Subsystem"].apply(list): the subsystems of a
\* product in table order, << >> when the product is not a key of the dict
SubsOfProduct(times_df, prod) ==
    LET rows == SelectSeq(times_df, LAMBDA r : r.Product = prod)
    IN  [n \in 1..Len(rows) |-> rows[n].Subsystem]

\* int(np.ceil(Quantity * demand_multiplier)), the multiplier in percent.  For
\* the quantities and multipliers drawn below the float product has the same
\* ceiling as the exact one (45 * 1.1 = 49.50000000000001 -> 50).
ScaledQuantity(quantity, mult_pct) == CeilDiv(quantity * mult_pct, 100)

\* mutant: the daily target rounded down
DailyTarget_floor(qty, n_biz_days) == qty \div Max(1, n_biz_days)

\* daily_target = int(np.ceil(qty / max(1, len(biz_days))))
DailyTarget(qty, n_biz_days) == CeilDiv(qty, Max(1, n_biz_days))

\* the rows one demand record appends: daily_target * 5 rounds of one task per
\* subsystem of the product
RowsOfRecord(r, times_df, n_biz_days, mult_pct) ==
    LET subs  == SubsOfProduct(times_df, r.Product)
        count == DailyTarget(ScaledQuantity(r.Quantity, mult_pct), n_biz_days) * DaysPerWeek
    IN  IF subs = << >> THEN << >>
        ELSE Concat([c \in 1..count |->
                 [n \in 1..Len(subs) |-> [Product |-> r.Product, Subsystem |-> subs[n]]]])

\* tasks.merge(times_df[[Product, Subsystem, Time]], how="left"): adds Time
MergeTime(rows, times_df) ==
    Concat([n \in 1..Len(rows) |->
        LET m == Matching(times_df, Key(rows[n]))
        IN  [x \in 1..Len(m) |->
                [Product |-> rows[n].Product, Subsystem |-> rows[n].Subsystem,
                 Time |-> m[x].Time]]])

\* make_weekly_task_pool: [raised, pool].  With demand for the month but no row
\* collected, pd.DataFrame([]) has no column to merge on and merge raises
\* KeyError.
make_weekly_task_pool(demand_df, times_df, target_date, mult_pct) ==
    LET month == MonthOf(target_date)
        year  == YearOf(target_date)
        biz_days == business_days_in_month(year, month)
        month_demand == MonthDemand(demand_df, year, month)
        rows == Concat([n \in 1..Len(month_demand) |->
                    RowsOfRecord(month_demand[n], times_df, Len(biz_days), mult_pct)])
    IN  IF month_demand = << >> THEN [raised |-> "", pool |-> << >>]
        ELSE IF rows = << >> THEN [raised |-> "KeyError", pool |-> << >>]
        ELSE [raised |-> "", pool |-> MergeTime(rows, times_df)]

\* _aggregate_remaining: groupby([Product, Subsystem]).sum(), the groups in key
\* order, the summed column named RemainingTime
aggregate_remaining(tasks, col_is_time) ==
    LET val(r) == IF col_is_time THEN r.Time ELSE r.RemainingTime
        grp(key) == Matching(tasks, key)
        present == SelectSeq(KeyOrder, LAMBDA key : grp(key) # << >>)
    IN  [n \in 1..Len(present) |->
            [Product |-> present[n][1], Subsystem |-> present[n][2],
             RemainingTime |-> SeqSum([x \in 1..Len(grp(present[n])) |->
                                          val(grp(present[n])[x])])]]

(***************************************************************************)
(* Scheduling core                                                         *)
(***************************************************************************)
\* mutant: the new start is compared with the start of an interval, not its end
can_place_start_only(new_start, new_end, intervals) ==
    \A n \in 1..Len(intervals) :
        new_end <= intervals[n][1] \/ new_start >= intervals[n][1]

\* can_place(new_start, new_end, intervals)
can_place(new_start, new_end, intervals) ==
    \A n \in 1..Len(intervals) :
        new_end <= intervals[n][1] \/ new_start >= intervals[n][2]

\* the while loop of place_next_slot, from candidate start t
RECURSIVE SlotSearch(_, _, _, _, _)
SlotSearch(t, dur_min, end_of_day, step_min, occupied) ==
    IF t + dur_min <= end_of_day
    THEN IF can_place(t, t + dur_min, occupied) THEN <<t, t + dur_min>>
         ELSE SlotSearch(t + step_min, dur_min, end_of_day, step_min, occupied)
    ELSE None

\* mutant: a step more than the rounded duration
SlotMinutes_step_more(duration_h, step_min) ==
    round_up_to_step(HoursToMinutesInt(duration_h), step_min) + step_min

\* the duration place_next_slot looks a slot for
SlotMinutes(duration_h, step_min) ==
    round_up_to_step(HoursToMinutesInt(duration_h), step_min)

\* mutant: the slot is taken at the start of the day without looking at the
\* occupied intervals
place_next_slot_at_day_start(day_start, max_minutes, duration_h, step_min, occupied) ==
    LET dur_min == SlotMinutes(duration_h, step_min)
    IN  IF dur_min = 0 \/ dur_min > max_minutes THEN None
        ELSE <<day_start, day_start + dur_min>>

\* place_next_slot(day_start, max_minutes, duration_h, step_min, occupied)
place_next_slot(day_start, max_minutes, duration_h, step_min, occupied) ==
    LET dur_min == SlotMinutes(duration_h, step_min)
    IN  IF dur_min = 0 THEN None
        ELSE SlotSearch(day_start, dur_min, day_start + max_minutes, step_min, occupied)

\* mutant: Friday counted as a full day
BaseMinutes_friday_full(date) ==
    IF Weekday(date) < 5 THEN BaseMinutesMonThu ELSE 0

\* base_minutes of a date
BaseMinutes(date) ==
    IF Weekday(date) < 4 THEN BaseMinutesMonThu
    ELSE IF Weekday(date) = 4 THEN BaseMinutesFri ELSE 0

\* mutant: the rows are not filtered by product and subsystem
TrainedOps_whole_table(trainings_df, prod, sub) ==
    LET rows == SelectSeq(trainings_df, LAMBDA r : r.Trained = "Y")
    IN  Unique([n \in 1..Len(rows) |-> rows[n].Operator])

\* the operators trained for (prod, sub), in order of first appearance in the
\* training table
TrainedOps(trainings_df, prod, sub) ==
    LET rows == SelectSeq(trainings_df,
                          LAMBDA r : r.Trained = "Y" /\ r.Product = prod /\ r.Subsystem = sub)
    IN  Unique([n \in 1..Len(rows) |-> rows[n].Operator])

\* mutant: trained for the product, whatever the subsystem
CandidateOps_any_subsystem(trainings_df, prod, sub, avail_set, avail_min) ==
    LET rows == SelectSeq(trainings_df, LAMBDA r : r.Trained = "Y" /\ r.Product = prod)
    IN  SelectSeq(Unique([n \in 1..Len(rows) |-> rows[n].Operator]),
                  LAMBDA op : op \in avail_set /\ Get(avail_min, op) > 0)

\* cand_ops of a task: trained, available, with capacity left
CandidateOps(trainings_df, prod, sub, avail_set, avail_min) ==
    SelectSeq(TrainedOps(trainings_df, prod, sub),
              LAMBDA op : op \in avail_set /\ Get(avail_min, op) > 0)

\* mutant: the chunk is the whole of the task's remainder
SchedulableHours_uncapped(task_rem_h, op_avail_min) == task_rem_h

\* schedulable_h = min(task_rem_h, op_avail_h)
SchedulableHours(task_rem_h, op_avail_min) ==
    Min(task_rem_h, MinutesToHours(op_avail_min))

\* mutant: the workcell is not looked at
WorkcellFree_unchecked(slot, wc_intervals) == TRUE

\* the workcell test of a found slot
WorkcellFree(slot, wc_intervals) == can_place(slot[1], slot[2], wc_intervals)

\* mutant: a step less than the duration is taken off the capacity
UsedMinutes_step_less(duration_h) == HoursToMinutesInt(duration_h) - TIME_STEP_MIN

\* used_min = int(duration_h * 60)
UsedMinutes(duration_h) == HoursToMinutesInt(duration_h)

\* mutant: the scheduled hours are added to the remainder
Leftover_added(remain_h, scheduled_h) == Max(0, Round2(remain_h + scheduled_h))

\* mutant: the scheduled hours are not taken off
Leftover_whole(remain_h, scheduled_h) == Max(0, Round2(remain_h))

\* leftover_h = max(0.0, round(remain_h - scheduled_this_task_h, 2))
Leftover(remain_h, scheduled_h) == Max(0, Round2(remain_h - scheduled_h))

\* the rows written for a proposal
ProposalRows(assigns, proposal_id) ==
    [n \in 1..Len(assigns) |->
        [Date |-> DateOfDt(assigns[n].start), ProposalId |-> proposal_id,
         Operator |-> assigns[n].operator, Product |-> assigns[n].product,
         Subsystem |-> assigns[n].subsystem, Workcell |-> assigns[n].workcell,
         Start |-> assigns[n].start, End |-> assigns[n].end,
         DurationHours |-> Round2(assigns[n].duration_h)]]

\* np.random.uniform(1 - u, 1 + u), in percent: the two ends and the middle
MultiplierSamples(u) == {100 - u, 100, 100 + u}

(***************************************************************************)
(* State                                                                   *)
(***************************************************************************)
VARIABLES
    pc,                 \* where the running call stands
    entry,              \* the function that was called
    raised,             \* the exception that ended the call, "" if none
    \* generate_weekly_proposals / make_weekly_task_pool
    target_date, available_operators_by_day, n_proposals, demand_uncertainty,
    source_files,       \* the source tables whose file exists in DATA_DIR
    data, files, output, monday, i, dem_mult, base_tasks, remaining,
    all_assignments, offset,
    call_log,           \* history: the multipliers drawn and the day calls made
    \* schedule_day_with_remaining
    sd_date, tasks, trainings, stations, available_operators, base_minutes,
    avail_min_per_op, occ_by_op, occ_by_wc, assignments, remaining_rows,
    k, cand_ops, j, scheduled_this_task_h

genVars == <<target_date, available_operators_by_day, n_proposals, demand_uncertainty,
             source_files, call_log, data, files, output, monday, i, dem_mult, base_tasks, remaining,
             all_assignments, offset>>

sdArgs == <<sd_date, trainings, stations, available_operators, base_minutes>>

sdVars == <<sd_date, tasks, trainings, stations, available_operators, base_minutes,
            avail_min_per_op, occ_by_op, occ_by_wc, assignments, remaining_rows,
            k, cand_ops, j, scheduled_this_task_h>>

vars == <<pc, entry, raised, genVars, sdVars>>

EmptyDict == [x \in {} |-> 0]

(***************************************************************************)
(* The inputs the calls are made with                                      *)
(***************************************************************************)
TrainingRow(op, sub) ==
    [Operator |-> op, Product |-> "P1", Subsystem |-> sub, Trained |-> "Y"]

\* training tables: who is trained for S1, S2 and S3, in table order
TrainingTables ==
    { << TrainingRow("op1", "S1"), TrainingRow("op2", "S1"),
         TrainingRow("op1", "S2"), TrainingRow("op2", "S2"),
         TrainingRow("op1", "S3"), TrainingRow("op2", "S3") >>,
      << TrainingRow("op2", "S1"), TrainingRow("op2", "S2"), TrainingRow("op1", "S1") >>,
      << TrainingRow("op1", "S1"), TrainingRow("op2", "S2"), TrainingRow("op2", "S3") >>,
      << TrainingRow("op1", "S1"), TrainingRow("op1", "S1") >> }

StationRow(sub, wc) == [Product |-> "P1", Subsystem |-> sub, Workcell |-> wc]

\* station tables: S1 and S2 built at the same workcell, or at two; S3 at W2
StationTables ==
    { << StationRow("S1", "W1"), StationRow("S2", "W1"), StationRow("S3", "W2") >>,
      << StationRow("S1", "W1"), StationRow("S2", "W2"), StationRow("S3", "W2") >> }

TimeRow(sub, t) == [Product |-> "P1", Subsystem |-> sub, Time |-> t]

\* time tables (hours in ten-thousandths); product P2 has no standard time
TimesTables ==
    { << TimeRow("S1", 20000), TimeRow("S2", 20700) >>,
      << TimeRow("S1", 20000) >>,
      << TimeRow("S3", 6000), TimeRow("S1", 4000), TimeRow("S2", 2000) >>,
      << TimeRow("S1", 13376), TimeRow("S2", 20000) >> }

DemandRow(y, m, prod, q) == [Year |-> y, Month |-> m, Product |-> prod, Quantity |-> q]

\* demand tables: February and March 2025 demand P1, May 2025 demands only P2
DemandTables ==
    { << DemandRow(2025, 2, "P1", 20), DemandRow(2025, 2, "P2", 30),
         DemandRow(2025, 3, "P1", 45), DemandRow(2025, 5, "P2", 10) >> }

\* target dates: a Wednesday in mid February, Tuesday 1 April (its week starts
\* in March), Sunday 1 June (its week starts in May), a Wednesday in July
TargetDates ==
    { MkDate(2025, 2, 12), MkDate(2025, 4, 1), MkDate(2025, 6, 1), MkDate(2025, 7, 2) }

\* availability mappings for the week of a Monday: everybody all week; op1
\* alone all week; a week with an empty day, a day missing from the mapping and
\* one operator away; nobody before Friday; nobody after Monday
AvailabilityMaps(mon) ==
    { [d \in mon..(mon + 4) |-> Operators],
      [d \in mon..(mon + 4) |-> {"op1"}],
      [d \in {mon, mon + 1, mon + 3, mon + 4} |->
          IF d = mon + 1 THEN {} ELSE IF d = mon + 3 THEN {"op2"} ELSE Operators],
      [d \in mon..(mon + 4) |-> IF d = mon + 4 THEN Operators ELSE {}],
      [d \in mon..(mon + 4) |-> IF d = mon THEN Operators ELSE {}] }

Uncertainties == {0, 10}

\* dates schedule_day_with_remaining is called with: a Monday, a Friday, a Saturday
DayCallDates == { MkDate(2025, 2, 10), MkDate(2025, 2, 14), MkDate(2025, 2, 15) }

\* RemainingTime values (ten-thousandths of an hour) of a task table given to
\* schedule_day_with_remaining
RemainingValues == {0, 40, 1000, 13370, 20000, 80040, 100000}

TaskRow(sub, r) == [Product |-> "P1", Subsystem |-> sub, RemainingTime |-> r]

\* task tables: one row for S1, or one for S1 and one for S2
DayCallTasks ==
    { << TaskRow("S1", r) >> : r \in RemainingValues }
    \cup { << TaskRow("S1", r[1]), TaskRow("S2", r[2]) >> :
              r \in RemainingValues \X RemainingValues }

\* the source tables, in the order load_data reads them
SourceTables == {"demand", "stations", "times", "training", "products"}

\* the files found in DATA_DIR by a call: all of them, all but one, none
SourceFileSets ==
    {SourceTables} \cup { SourceTables \ {t} : t \in SourceTables } \cup {{}}

\* mutant: a missing file is read as an empty table
load_data_lenient(present, demand, stations_t, times, training) ==
    [raised |-> "",
     data |-> [demand   |-> IF "demand" \in present THEN demand ELSE << >>,
               times    |-> IF "times" \in present THEN times ELSE << >>,
               stations |-> IF "stations" \in present THEN stations_t ELSE << >>,
               training |-> IF "training" \in present THEN training ELSE << >>]]

\* load_data: _read_excel raises FileNotFoundError at the first of the five
\* files that does not exist; otherwise the tables, columns renamed (the
\* products table is read and not used by the scheduler)
load_data(present, demand, stations_t, times, training) ==
    IF SourceTables \subseteq present
    THEN [raised |-> "",
          data |-> [demand |-> demand, times |-> times, stations |-> stations_t,
                    training |-> training]]
    ELSE [raised |-> "FileNotFoundError",
          data |-> [demand |-> << >>, times |-> << >>, stations |-> << >>,
                    training |-> << >>]]

(***************************************************************************)
(* Init: nothing has been called                                           *)
(***************************************************************************)
Init ==
    /\ pc = "idle" /\ entry = "" /\ raised = ""
    /\ target_date = 0 /\ available_operators_by_day = EmptyDict
    /\ n_proposals = 0 /\ demand_uncertainty = 0
    /\ source_files = SourceTables
    /\ call_log = [mults |-> << >>, days |-> << >>]
    /\ data = [demand |-> << >>, times |-> << >>, stations |-> << >>, training |-> << >>]
    /\ files = << >> /\ output = EmptyDict /\ monday = 0 /\ i = 0 /\ dem_mult = 100
    /\ base_tasks = << >> /\ remaining = << >> /\ all_assignments = << >> /\ offset = 0
    /\ sd_date = 0 /\ tasks = << >> /\ trainings = << >> /\ stations = << >>
    /\ available_operators = {} /\ base_minutes = 0
    /\ avail_min_per_op = EmptyDict /\ occ_by_op = EmptyDict /\ occ_by_wc = EmptyDict
    /\ assignments = << >> /\ remaining_rows = << >>
    /\ k = 0 /\ cand_ops = << >> /\ j = 0 /\ scheduled_this_task_h = 0

(***************************************************************************)
(* schedule_day_with_remaining                                             *)
(***************************************************************************)
\* mutant: the operators' capacity counters outlive the call
ScheduleEnter_capacity_kept(date, tasks_arg, trainings_arg, stations_arg, avail_arg) ==
    /\ sd_date' = date
    /\ trainings' = trainings_arg
    /\ stations' = stations_arg
    /\ available_operators' = avail_arg
    /\ base_minutes' = BaseMinutes(date)
    /\ assignments' = << >>
    /\ cand_ops' = << >> /\ j' = 0 /\ scheduled_this_task_h' = 0
    /\ tasks' = SortByRemainingDesc(MergeStations(tasks_arg, stations_arg))
    /\ remaining_rows' = << >>
    /\ avail_min_per_op' = [op \in avail_arg |->
                               IF op \in DOMAIN avail_min_per_op
                               THEN avail_min_per_op[op] ELSE BaseMinutes(date)]
    /\ occ_by_op' = [op \in avail_arg |-> << >>]
    /\ occ_by_wc' = EmptyDict
    /\ k' = 1
    /\ pc' = "task"

\* lines 123-132: the call up to the task loop, or the weekend return
ScheduleEnter(date, tasks_arg, trainings_arg, stations_arg, avail_arg) ==
    /\ sd_date' = date
    /\ trainings' = trainings_arg
    /\ stations' = stations_arg
    /\ available_operators' = avail_arg
    /\ base_minutes' = BaseMinutes(date)
    /\ assignments' = << >>
    /\ cand_ops' = << >> /\ j' = 0 /\ scheduled_this_task_h' = 0
    /\ IF Weekday(date) >= 5 \/ BaseMinutes(date) = 0
       THEN /\ tasks' = tasks_arg
            /\ remaining_rows' = tasks_arg
            /\ avail_min_per_op' = EmptyDict /\ occ_by_op' = EmptyDict
            /\ occ_by_wc' = EmptyDict
            /\ k' = 0
            /\ pc' = "returned"
       ELSE /\ tasks' = SortByRemainingDesc(MergeStations(tasks_arg, stations_arg))
            /\ remaining_rows' = << >>
            /\ avail_min_per_op' = [op \in avail_arg |-> BaseMinutes(date)]
            /\ occ_by_op' = [op \in avail_arg |-> << >>]
            /\ occ_by_wc' = EmptyDict
            /\ k' = 1
            /\ pc' = "task"

\* a caller calls schedule_day_with_remaining
CallScheduleDay ==
    /\ pc = "idle"
    /\ entry' = "schedule_day"
    /\ \E date \in DayCallDates, t \in DayCallTasks, tr \in TrainingTables,
          st \in StationTables, av \in SUBSET Operators :
          ScheduleEnter(date, t, tr, st, av)
    /\ UNCHANGED <<raised, genVars>>

\* lines 134-143: the head of the task loop
TaskStep ==
    /\ pc = "task"
    /\ IF k > Len(tasks)
       THEN /\ pc' = "returned"
            /\ UNCHANGED <<remaining_rows, k, cand_ops, j, scheduled_this_task_h>>
       ELSE LET task == tasks[k]
                remain_h == task.RemainingTime
                cand == CandidateOps(trainings, task.Product, task.Subsystem,
                                     available_operators, avail_min_per_op)
            IN  IF cand = << >> \/ remain_h <= 0
                THEN /\ remaining_rows' = Append(remaining_rows,
                            [Product |-> task.Product, Subsystem |-> task.Subsystem,
                             RemainingTime |-> remain_h])
                     /\ k' = k + 1
                     /\ UNCHANGED <<pc, cand_ops, j, scheduled_this_task_h>>
                ELSE /\ scheduled_this_task_h' = 0
                     /\ cand_ops' = SortByAvailDesc(cand, avail_min_per_op)
                     /\ j' = 1
                     /\ pc' = "op"
                     /\ UNCHANGED <<remaining_rows, k>>
    /\ UNCHANGED <<entry, raised, genVars, sdArgs, tasks, avail_min_per_op,
                   occ_by_op, occ_by_wc, assignments>>

\* lines 146-176: one turn of the operator loop, or its end and the leftover
OpStep ==
    /\ pc = "op"
    /\ LET task == tasks[k]
           remain_h == task.RemainingTime
           wc == task.Workcell
       IN  IF j > Len(cand_ops) \/ scheduled_this_task_h >= remain_h
           THEN /\ remaining_rows' =
                       IF Leftover(remain_h, scheduled_this_task_h) > 0
                       THEN Append(remaining_rows,
                                [Product |-> task.Product, Subsystem |-> task.Subsystem,
                                 RemainingTime |-> Leftover(remain_h, scheduled_this_task_h)])
                       ELSE remaining_rows
                /\ k' = k + 1
                /\ pc' = "task"
                /\ UNCHANGED <<j, scheduled_this_task_h, avail_min_per_op, occ_by_op,
                               occ_by_wc, assignments>>
           ELSE LET op == cand_ops[j]
                    op_avail_min == Get(avail_min_per_op, op)
                    schedulable_h == SchedulableHours(remain_h - scheduled_this_task_h,
                                                      op_avail_min)
                    day_start == dt_combine(sd_date, START_TIME)
                    slot == place_next_slot(day_start, base_minutes, schedulable_h,
                                            TIME_STEP_MIN, occ_by_op[op])
                    wc_before == IF wc \in DOMAIN occ_by_wc THEN occ_by_wc[wc] ELSE << >>
                    duration_h == MinutesToHours(slot[2] - slot[1])
                IN  /\ j' = j + 1
                    /\ UNCHANGED <<remaining_rows, k, pc>>
                    /\ IF op_avail_min < TIME_STEP_MIN \/ slot = None
                       THEN UNCHANGED <<scheduled_this_task_h, avail_min_per_op, occ_by_op,
                                        occ_by_wc, assignments>>
                       ELSE IF ~ WorkcellFree(slot, wc_before)
                       THEN /\ occ_by_wc' = (wc :> wc_before) @@ occ_by_wc
                            /\ UNCHANGED <<scheduled_this_task_h, avail_min_per_op,
                                           occ_by_op, assignments>>
                       ELSE /\ assignments' = Append(assignments,
                                   [operator |-> op, product |-> task.Product,
                                    subsystem |-> task.Subsystem, workcell |-> wc,
                                    start |-> slot[1], end |-> slot[2],
                                    duration_h |-> duration_h])
                            /\ occ_by_op' = [occ_by_op EXCEPT
                                   ![op] = SortIntervals(Append(@, slot))]
                            /\ occ_by_wc' = (wc :> SortIntervals(Append(wc_before, slot)))
                                            @@ occ_by_wc
                            /\ avail_min_per_op' = [avail_min_per_op EXCEPT
                                   ![op] = @ - UsedMinutes(duration_h)]
                            /\ scheduled_this_task_h' = scheduled_this_task_h + duration_h
    /\ UNCHANGED <<entry, raised, genVars, sdArgs, tasks, cand_ops>>

(***************************************************************************)
(* generate_weekly_proposals                                               *)
(***************************************************************************)
\* the name of a proposal file: planning_week_<monday>_proposal<i>.csv
WeekPath(mon, idx) == <<mon, idx>>

\* lines 188-192: the call up to the proposal loop
CallGenerate ==
    /\ pc = "idle"
    /\ entry' = "generate"
    /\ \E td \in TargetDates, n \in 0..MaxProposals, u \in Uncertainties,
          present \in SourceFileSets :
          /\ target_date' = td
          /\ n_proposals' = n
          /\ demand_uncertainty' = u
          /\ source_files' = present
          /\ available_operators_by_day' \in AvailabilityMaps(week_monday(td))
          /\ \E dm \in DemandTables, tt \in TimesTables, st \in StationTables,
                tr \in TrainingTables :
                LET r == load_data(present, dm, st, tt, tr)
                IN  IF r.raised # ""
                    THEN /\ raised' = r.raised
                         /\ pc' = "done"
                         /\ UNCHANGED <<data, files, monday, i>>
                    ELSE /\ data' = r.data
                         /\ files' = << >>
                         /\ monday' = week_monday(td)
                         /\ i' = 1
                         /\ pc' = "proposal"
                         /\ UNCHANGED raised
    /\ UNCHANGED <<output, dem_mult, base_tasks, remaining, all_assignments,
                   offset, call_log, sdVars>>

\* mutant: the pool is built for the month of the target date
ProposalStep_target_date_month ==
    /\ pc = "proposal"
    /\ IF i > n_proposals
       THEN /\ pc' = "done"
            /\ UNCHANGED <<raised, dem_mult, base_tasks, files, output, i, remaining,
                           all_assignments, offset, call_log>>
       ELSE \E m \in MultiplierSamples(demand_uncertainty) :
            LET r == make_weekly_task_pool(data.demand, data.times, target_date, m)
            IN  /\ dem_mult' = m
                /\ call_log' = [call_log EXCEPT !.mults = Append(@, m)]
                /\ IF r.raised # ""
                   THEN /\ raised' = r.raised
                        /\ pc' = "done"
                        /\ UNCHANGED <<base_tasks, files, output, i, remaining,
                                       all_assignments, offset>>
                   ELSE IF r.pool = << >>
                   THEN /\ base_tasks' = r.pool
                        /\ output' = (WeekPath(monday, i) :> << >>) @@ output
                        /\ files' = Append(files, WeekPath(monday, i))
                        /\ i' = i + 1
                        /\ UNCHANGED <<raised, pc, remaining, all_assignments, offset>>
                   ELSE /\ base_tasks' = r.pool
                        /\ remaining' = aggregate_remaining(r.pool, TRUE)
                        /\ all_assignments' = << >>
                        /\ offset' = 0
                        /\ pc' = "day"
                        /\ UNCHANGED <<raised, files, output, i>>
    /\ UNCHANGED <<entry, target_date, available_operators_by_day, n_proposals,
                   demand_uncertainty, source_files, data, monday, sdVars>>

\* lines 194-203: the head of the proposal loop
ProposalStep ==
    /\ pc = "proposal"
    /\ IF i > n_proposals
       THEN /\ pc' = "done"
            /\ UNCHANGED <<raised, dem_mult, base_tasks, files, output, i, remaining,
                           all_assignments, offset, call_log>>
       ELSE \E m \in MultiplierSamples(demand_uncertainty) :
            LET r == make_weekly_task_pool(data.demand, data.times, monday, m)
            IN  /\ dem_mult' = m
                /\ call_log' = [call_log EXCEPT !.mults = Append(@, m)]
                /\ IF r.raised # ""
                   THEN /\ raised' = r.raised
                        /\ pc' = "done"
                        /\ UNCHANGED <<base_tasks, files, output, i, remaining,
                                       all_assignments, offset>>
                   ELSE IF r.pool = << >>
                   THEN /\ base_tasks' = r.pool
                        /\ output' = (WeekPath(monday, i) :> << >>) @@ output
                        /\ files' = Append(files, WeekPath(monday, i))
                        /\ i' = i + 1
                        /\ UNCHANGED <<raised, pc, remaining, all_assignments, offset>>
                   ELSE /\ base_tasks' = r.pool
                        /\ remaining' = aggregate_remaining(r.pool, TRUE)
                        /\ all_assignments' = << >>
                        /\ offset' = 0
                        /\ pc' = "day"
                        /\ UNCHANGED <<raised, files, output, i>>
    /\ UNCHANGED <<entry, target_date, available_operators_by_day, n_proposals,
                   demand_uncertainty, source_files, data, monday, sdVars>>

\* mutant: a date missing from the mapping has every operator available
AvailOps_default_all(by_day, d) ==
    IF d \in DOMAIN by_day THEN by_day[d] ELSE Operators

\* avail_ops = available_operators_by_day.get(d, set())
AvailOps(by_day, d) ==
    IF d \in DOMAIN by_day THEN by_day[d] ELSE {}

\* mutant: a day without operators gives up the work that is left
DayStep_empty_day_drops ==
    /\ pc = "day"
    /\ IF offset >= DaysPerWeek
       THEN /\ output' = (WeekPath(monday, i) :> ProposalRows(all_assignments, i))
                         @@ output
            /\ files' = Append(files, WeekPath(monday, i))
            /\ i' = i + 1
            /\ pc' = "proposal"
            /\ UNCHANGED <<offset, remaining, sdVars>>
       ELSE LET d == monday + offset
                avail_ops == AvailOps(available_operators_by_day, d)
            IN  IF avail_ops = {} \/ remaining = << >>
                THEN /\ offset' = offset + 1
                     /\ remaining' = << >>
                     /\ UNCHANGED <<pc, files, output, i, sdVars>>
                ELSE /\ ScheduleEnter(d, MergeTimes(remaining, data.times),
                                      data.training, data.stations, avail_ops)
                     /\ UNCHANGED <<offset, remaining, files, output, i>>
    /\ UNCHANGED <<entry, raised, target_date, available_operators_by_day, n_proposals,
                   demand_uncertainty, source_files, call_log, data, monday, dem_mult,
                   base_tasks, all_assignments>>

\* lines 204-210 and 214-218: the head of the day loop, or the proposal's file
DayStep ==
    /\ pc = "day"
    /\ IF offset >= DaysPerWeek
       THEN /\ output' = (WeekPath(monday, i) :> ProposalRows(all_assignments, i))
                         @@ output
            /\ files' = Append(files, WeekPath(monday, i))
            /\ i' = i + 1
            /\ pc' = "proposal"
            /\ UNCHANGED <<offset, sdVars>>
       ELSE LET d == monday + offset
                avail_ops == AvailOps(available_operators_by_day, d)
            IN  IF avail_ops = {} \/ remaining = << >>
                THEN /\ offset' = offset + 1
                     /\ UNCHANGED <<pc, files, output, i, sdVars>>
                ELSE /\ ScheduleEnter(d, MergeTimes(remaining, data.times),
                                      data.training, data.stations, avail_ops)
                     /\ UNCHANGED <<offset, files, output, i>>
    /\ UNCHANGED <<entry, raised, target_date, available_operators_by_day, n_proposals,
                   demand_uncertainty, source_files, call_log, data, monday, dem_mult,
                   base_tasks, remaining, all_assignments>>

\* mutant: the day's Assignments are put in front of the earlier days'
ReturnStep_day_in_front ==
    /\ pc = "returned"
    /\ IF entry = "generate"
       THEN /\ all_assignments' = assignments \o all_assignments
            /\ remaining' = remaining_rows
            /\ offset' = offset + 1
            /\ pc' = "day"
            /\ call_log' = [call_log EXCEPT !.days = Append(@,
                   [index |-> i, date |-> sd_date, tasks |-> remaining,
                    available |-> available_operators,
                    assignments |-> assignments, remainder |-> remaining_rows])]
       ELSE /\ pc' = "done"
            /\ UNCHANGED <<all_assignments, remaining, offset, call_log>>
    /\ UNCHANGED <<entry, raised, target_date, available_operators_by_day, n_proposals,
                   demand_uncertainty, source_files, data, files, output, monday, i, dem_mult,
                   base_tasks, sdVars>>

\* the return of schedule_day_with_remaining: to its caller, or lines 211-212
ReturnStep ==
    /\ pc = "returned"
    /\ IF entry = "generate"
       THEN /\ all_assignments' = all_assignments \o assignments
            /\ remaining' = remaining_rows
            /\ offset' = offset + 1
            /\ pc' = "day"
            /\ call_log' = [call_log EXCEPT !.days = Append(@,
                   [index |-> i, date |-> sd_date, tasks |-> remaining,
                    available |-> available_operators,
                    assignments |-> assignments, remainder |-> remaining_rows])]
       ELSE /\ pc' = "done"
            /\ UNCHANGED <<all_assignments, remaining, offset, call_log>>
    /\ UNCHANGED <<entry, raised, target_date, available_operators_by_day, n_proposals,
                   demand_uncertainty, source_files, data, files, output, monday, i, dem_mult,
                   base_tasks, sdVars>>

(***************************************************************************)
(* make_weekly_task_pool, called on its own                                *)
(***************************************************************************)
\* multipliers of a direct call (percent); 1.0 is the default
PoolCallMultipliers == {90, 100, 110, 250}

CallMakePool ==
    /\ pc = "idle"
    /\ entry' = "make_pool"
    /\ \E td \in TargetDates, dm \in DemandTables, tt \in TimesTables,
          m \in PoolCallMultipliers :
          LET r == make_weekly_task_pool(dm, tt, td, m)
          IN  /\ target_date' = td
              /\ data' = [demand |-> dm, times |-> tt, stations |-> << >>,
                          training |-> << >>]
              /\ dem_mult' = m
              /\ raised' = r.raised
              /\ base_tasks' = r.pool
    /\ pc' = "done"
    /\ UNCHANGED <<available_operators_by_day, n_proposals, demand_uncertainty,
                   source_files, call_log, files, output, monday, i, remaining,
                   all_assignments, offset, sdVars>>

(***************************************************************************)
(* Specification                                                           *)
(***************************************************************************)
Next ==
    \/ CallGenerate
    \/ CallScheduleDay
    \/ CallMakePool
    \/ ProposalStep
    \/ DayStep
    \/ TaskStep
    \/ OpStep
    \/ ReturnStep

Spec == Init /\ [][Next]_vars

(***************************************************************************)
(* Properties                                                              *)
(***************************************************************************)
\* the Assignments committed so far by the running call: the earlier days of
\* the proposal and the day being scheduled
Committed ==
    IF entry = "generate"
    THEN all_assignments \o (IF pc \in {"task", "op", "returned"} THEN assignments ELSE << >>)
    ELSE assignments

\* [s1, e1) and [s2, e2) share an instant
Overlap(s1, e1, s2, e2) == s1 < e2 /\ s2 < e1

\* the day capacity in minutes, as the specification states it
DayCapacity(date) ==
    CASE Weekday(date) \in 0..3 -> 480
      [] Weekday(date) = 4 -> 360
      [] OTHER -> 0

\* 08:00 of a date
DayStart(date) == date * 1440 + 8 * 60

\* minutes as ten-thousandths of an hour
AsHours(minutes) == (minutes * 10000) \div 60

\* C1: no two distinct Assignments of one Operator overlap, in every state of
\* the scheduler (after every commit) and in every proposal written
C1_NoOperatorOverlap ==
    /\ \A a, b \in 1..Len(Committed) :
          (a # b /\ Committed[a].operator = Committed[b].operator)
          => ~ Overlap(Committed[a].start, Committed[a].end,
                       Committed[b].start, Committed[b].end)
    /\ \A f \in DOMAIN output : \A a, b \in 1..Len(output[f]) :
          (a # b /\ output[f][a].Operator = output[f][b].Operator)
          => ~ Overlap(output[f][a].Start, output[f][a].End,
                       output[f][b].Start, output[f][b].End)

\* C1 witness: within a call of generate_weekly_proposals an operator holds two
\* Assignments on the same day, the second starting when the first ends
C1_Witness ==
    /\ entry = "generate"
    /\ \E a, b \in 1..Len(Committed) :
          /\ a # b
          /\ Committed[a].operator = Committed[b].operator
          /\ Committed[a].end = Committed[b].start

\* C2: no two distinct Assignments at one Workcell overlap, whatever their
\* operators and tasks
C2_NoWorkcellOverlap ==
    /\ \A a, b \in 1..Len(Committed) :
          (a # b /\ Committed[a].workcell = Committed[b].workcell)
          => ~ Overlap(Committed[a].start, Committed[a].end,
                       Committed[b].start, Committed[b].end)
    /\ \A f \in DOMAIN output : \A a, b \in 1..Len(output[f]) :
          (a # b /\ output[f][a].Workcell = output[f][b].Workcell)
          => ~ Overlap(output[f][a].Start, output[f][a].End,
                       output[f][b].Start, output[f][b].End)

\* C2 witness: within a call of generate_weekly_proposals two operators hold
\* Assignments of two different tasks at the same workcell on the same day
C2_Witness ==
    /\ entry = "generate"
    /\ pc = "returned"
    /\ \E a, b \in 1..Len(assignments) :
          /\ assignments[a].operator # assignments[b].operator
          /\ assignments[a].subsystem # assignments[b].subsystem
          /\ assignments[a].workcell = assignments[b].workcell

\* the training table the running call works with
TrainingRelation == IF entry = "generate" THEN data.training ELSE trainings

\* C3: the Operator of every Assignment has a row in the training table for
\* the Assignment's Product and Subsystem
C3_TrainingRespected ==
    \A a \in 1..Len(Committed) :
        \E n \in 1..Len(TrainingRelation) :
            /\ TrainingRelation[n].Operator = Committed[a].operator
            /\ TrainingRelation[n].Product = Committed[a].product
            /\ TrainingRelation[n].Subsystem = Committed[a].subsystem

\* C3 witness: a day ended with an Assignment although an available operator
\* with capacity left is not trained for a task that stays in the remainder
C3_Witness ==
    /\ pc = "returned"
    /\ Len(assignments) > 0
    /\ \E n \in 1..Len(remaining_rows), op \in available_operators :
          /\ avail_min_per_op[op] = base_minutes
          /\ ~ \E t \in 1..Len(trainings) :
                /\ trainings[t].Operator = op
                /\ trainings[t].Subsystem = remaining_rows[n].Subsystem

\* the minutes an operator is assigned on a date
RECURSIVE AssignedMinutes(_, _, _)
AssignedMinutes(assigns, op, date) ==
    IF assigns = << >> THEN 0
    ELSE (IF Head(assigns).operator = op /\ Head(assigns).start \div 1440 = date
          THEN Head(assigns).end - Head(assigns).start ELSE 0)
         + AssignedMinutes(Tail(assigns), op, date)

\* the hours (ten-thousandths) an operator is assigned on a date, by duration_h
RECURSIVE AssignedHours(_, _, _)
AssignedHours(assigns, op, date) ==
    IF assigns = << >> THEN 0
    ELSE (IF Head(assigns).operator = op /\ Head(assigns).start \div 1440 = date
          THEN Head(assigns).duration_h ELSE 0)
         + AssignedHours(Tail(assigns), op, date)

DatesOf(assigns) == { assigns[n].start \div 1440 : n \in 1..Len(assigns) }

\* C4: per operator and day the Assignment durations sum to at most the day's
\* capacity (480 min Monday-Thursday, 360 Friday, 0 at the weekend: no
\* Assignment on a weekend day), and the remaining-capacity counter is never
\* negative
C4_CapacityRespected ==
    /\ \A op \in Operators, date \in DatesOf(Committed) :
          /\ AssignedMinutes(Committed, op, date) <= DayCapacity(date)
          /\ AssignedHours(Committed, op, date) <= AsHours(DayCapacity(date))
    /\ \A a \in 1..Len(Committed) : Weekday(Committed[a].start \div 1440) < 5
    /\ \A op \in DOMAIN avail_min_per_op : avail_min_per_op[op] >= 0
    /\ (entry = "schedule_day" /\ Weekday(sd_date) >= 5) => assignments = << >>

\* C4 witness: on a Friday an operator holds two Assignments that use up the
\* 360 minutes, the counter standing at 0
C4_Witness ==
    /\ pc \in {"task", "op", "returned"}
    /\ Weekday(sd_date) = 4
    /\ \E op \in DOMAIN avail_min_per_op :
          /\ avail_min_per_op[op] = 0
          /\ AssignedMinutes(assignments, op, sd_date) = 360
          /\ \E a, b \in 1..Len(assignments) :
                a # b /\ assignments[a].operator = op /\ assignments[b].operator = op

\* C5: Start and End of every Assignment are whole numbers of 15-minute steps
\* after 08:00 of the Assignment's date, Start < End, and both lie in
\* [08:00, 08:00 + capacity of that day]
C5_GridAndWindow ==
    \A a \in 1..Len(Committed) :
        LET s == Committed[a].start
            e == Committed[a].end
            d == s \div 1440
        IN  /\ (s - DayStart(d)) % 15 = 0
            /\ (e - DayStart(d)) % 15 = 0
            /\ s < e
            /\ DayStart(d) <= s
            /\ e <= DayStart(d) + DayCapacity(d)
            /\ pc \in {"task", "op", "returned"} /\ a > Len(Committed) - Len(assignments)
               => d = sd_date

\* C5 witness: on a Friday a task whose RemainingTime is no whole number of
\* steps got an Assignment longer than the task, and another Assignment ends
\* the window at 14:00
C5_Witness ==
    /\ pc = "returned"
    /\ Weekday(sd_date) = 4
    /\ \E a \in 1..Len(assignments), n \in 1..Len(tasks) :
          /\ tasks[n].Subsystem = assignments[a].subsystem
          /\ tasks[n].RemainingTime % 2500 # 0
          /\ assignments[a].duration_h > tasks[n].RemainingTime
    /\ \E a \in 1..Len(assignments) : assignments[a].end = DayStart(sd_date) + 360

\* the hours (ten-thousandths) scheduled for a (Product, Subsystem) by the call of
\* schedule_day_with_remaining
RECURSIVE ScheduledFor(_, _)
ScheduledFor(assigns, key) ==
    IF assigns = << >> THEN 0
    ELSE (IF <<Head(assigns).product, Head(assigns).subsystem>> = key
          THEN Head(assigns).duration_h ELSE 0)
         + ScheduledFor(Tail(assigns), key)

\* the RemainingTime values the remainder holds for a (Product, Subsystem)
CarriedRows(key) ==
    LET rows == SelectSeq(remaining_rows, LAMBDA r : <<r.Product, r.Subsystem>> = key)
    IN  [n \in 1..Len(rows) |-> rows[n].RemainingTime]

CarriedFor(key) == SeqSum(CarriedRows(key))

TaskKey(n) == <<tasks[n].Product, tasks[n].Subsystem>>

Abs(x) == IF x >= 0 THEN x ELSE 0 - x

\* C6 as stated: when schedule_day_with_remaining returns, for every task
\* scheduled hours + carried hours = input RemainingTime within 0.01 h
C6_ConservationAsStated ==
    pc = "returned" =>
        \A n \in 1..Len(tasks) :
            Abs(ScheduledFor(assignments, TaskKey(n)) + CarriedFor(TaskKey(n))
                - tasks[n].RemainingTime) <= 100

\* C6 amended: scheduled + carried equals the input exactly when the input is
\* a whole number of 15-minute steps; for any input it is at least the input
\* less 0.01 h and exceeds it by less than one step (0.25 h)
C6_ConservationUpToOneStep ==
    pc = "returned" =>
        \A n \in 1..Len(tasks) :
            LET total == ScheduledFor(assignments, TaskKey(n)) + CarriedFor(TaskKey(n))
                input == tasks[n].RemainingTime
            IN  /\ total >= input - 100
                /\ total - input < 2500
                /\ input % 2500 = 0 => total = input

\* C6 witness: a day that scheduled one task in part, carrying the rest, and
\* scheduled another, of no whole number of steps, for longer than its input
C6_Witness ==
    /\ pc = "returned"
    /\ \E n, m \in 1..Len(tasks) :
          /\ ScheduledFor(assignments, TaskKey(n)) > 0
          /\ CarriedFor(TaskKey(n)) > 0
          /\ tasks[m].RemainingTime % 2500 # 0
          /\ ScheduledFor(assignments, TaskKey(m)) > tasks[m].RemainingTime + 100

\* the operators trained for task n and available on the day
TrainedAvailable(n) ==
    { op \in available_operators :
        \E t \in 1..Len(trainings) :
            /\ trainings[t].Operator = op
            /\ trainings[t].Product = tasks[n].Product
            /\ trainings[t].Subsystem = tasks[n].Subsystem }

\* the case of C7: a single task longer than the day, one operator for it
C7_Case ==
    /\ DayCapacity(sd_date) > 0
    /\ Len(tasks) = 1
    /\ tasks[1].RemainingTime > AsHours(DayCapacity(sd_date))
    /\ Cardinality(TrainedAvailable(1)) = 1

\* the one Assignment C7 expects: the operator, the whole day from 08:00
C7_OneFullDayAssignment ==
    /\ Len(assignments) = 1
    /\ assignments[1].operator \in TrainedAvailable(1)
    /\ assignments[1].product = tasks[1].Product
    /\ assignments[1].subsystem = tasks[1].Subsystem
    /\ assignments[1].start = DayStart(sd_date)
    /\ assignments[1].end = DayStart(sd_date) + DayCapacity(sd_date)
    /\ assignments[1].duration_h = AsHours(DayCapacity(sd_date))

\* C7 as stated: one Assignment of the day's capacity C, and a remainder of
\* exactly one task with RemainingTime R - C
C7_SingleTaskAsStated ==
    (pc = "returned" /\ C7_Case) =>
        /\ C7_OneFullDayAssignment
        /\ remaining_rows = << [Product |-> tasks[1].Product,
                                Subsystem |-> tasks[1].Subsystem,
                                RemainingTime |-> tasks[1].RemainingTime
                                                  - AsHours(DayCapacity(sd_date))] >>

\* C7 amended: one Assignment of the day's capacity C from 08:00, and a
\* remainder of one task with RemainingTime R - C rounded to 2 decimals, or an
\* empty remainder when that rounds to 0; within generate_weekly_proposals the
\* remainder is the next day's input
C7_SingleTaskRounded ==
    /\ [](  (pc = "returned" /\ C7_Case) =>
              LET rest == Round2(tasks[1].RemainingTime - AsHours(DayCapacity(sd_date)))
              IN  /\ C7_OneFullDayAssignment
                  /\ remaining_rows =
                        IF rest > 0
                        THEN << [Product |-> tasks[1].Product,
                                 Subsystem |-> tasks[1].Subsystem,
                                 RemainingTime |-> rest] >>
                        ELSE << >> )
    /\ [][ (pc = "returned" /\ C7_Case /\ entry = "generate")
              => (remaining' = remaining_rows /\ offset' = offset + 1) ]_vars

\* C7 witness: the 10 h task of a Monday with op1 alone: 8 h assigned from
\* 08:00 to 16:00, 2 h carried, inside generate_weekly_proposals
C7_Witness ==
    /\ pc = "returned"
    /\ entry = "generate"
    /\ C7_Case
    /\ Weekday(sd_date) = 0
    /\ tasks[1].RemainingTime = 100000
    /\ assignments[1].duration_h = 80000
    /\ remaining_rows[1].RemainingTime = 20000

\* the Assignments committed before task n is processed, at its workcell
EarlierAtWorkcell(n) ==
    SelectSeq(assignments,
              LAMBDA a : /\ a.workcell = tasks[n].Workcell
                         /\ \E m \in 1..(n - 1) : TaskKey(m) = <<a.product, a.subsystem>>)

\* the workcell of task n is occupied for the whole day window when the task is
\* processed
WorkcellFullyBooked(n) ==
    \A q \in 0..((DayCapacity(sd_date) \div 15) - 1) :
        \E a \in 1..Len(EarlierAtWorkcell(n)) :
            /\ EarlierAtWorkcell(n)[a].start <= DayStart(sd_date) + 15 * q
            /\ DayStart(sd_date) + 15 * (q + 1) <= EarlierAtWorkcell(n)[a].end

\* C8 as stated: a task whose workcell is fully booked gets no Assignment and
\* is in the remainder with its RemainingTime unchanged
C8_FullyBookedAsStated ==
    (pc = "returned" /\ DayCapacity(sd_date) > 0) =>
        \A n \in 1..Len(tasks) :
            WorkcellFullyBooked(n) =>
                /\ ScheduledFor(assignments, TaskKey(n)) = 0
                /\ CarriedRows(TaskKey(n)) = << tasks[n].RemainingTime >>

\* C8 amended: a task whose workcell is fully booked gets no Assignment; it is
\* in the remainder with its RemainingTime unchanged when that has at most 2
\* decimals, and otherwise either unchanged, or rounded to 2 decimals, or
\* dropped when it rounds to 0
C8_FullyBookedRounded ==
    (pc = "returned" /\ DayCapacity(sd_date) > 0) =>
        \A n \in 1..Len(tasks) :
            WorkcellFullyBooked(n) =>
                LET input == tasks[n].RemainingTime
                IN  /\ \A a \in 1..Len(assignments) :
                          <<assignments[a].product, assignments[a].subsystem>> # TaskKey(n)
                    /\ input % 100 = 0 => CarriedRows(TaskKey(n)) = << input >>
                    /\ input % 100 # 0 =>
                          \/ CarriedRows(TaskKey(n)) = << input >>
                          \/ Round2(input) > 0 /\ CarriedRows(TaskKey(n)) = << Round2(input) >>
                          \/ Round2(input) = 0 /\ CarriedRows(TaskKey(n)) = << >>

\* C8 witness: the workcell of a 2 h task is booked from 08:00 to 16:00 by an
\* earlier task; an available operator trained for it has the whole day free,
\* and the task is carried whole
C8_Witness ==
    /\ pc = "returned"
    /\ DayCapacity(sd_date) = 480
    /\ \E n \in 1..Len(tasks) :
          /\ WorkcellFullyBooked(n)
          /\ tasks[n].RemainingTime = 20000
          /\ \E op \in TrainedAvailable(n) : avail_min_per_op[op] = 480
          /\ CarriedRows(TaskKey(n)) = << 20000 >>

\* the date make_weekly_task_pool was given by the running call
PoolDate == IF entry = "make_pool" THEN target_date ELSE monday

\* make_weekly_task_pool has returned a pool, held in base_tasks with the
\* multiplier in dem_mult
PoolBuilt ==
    /\ raised = ""
    /\ \/ entry = "make_pool" /\ pc = "done"
       \/ entry = "generate" /\ pc \in {"day", "task", "op", "returned"}
       \/ entry = "generate" /\ pc \in {"proposal", "done"} /\ i > 1

\* B: the number of Monday-Friday dates of the month of a date
WeekdaysInMonthOf(date) ==
    LET first == MkDate(YearOf(date), MonthOf(date), 1)
    IN  Cardinality({ d \in first..(first + 31) :
                        MonthOf(d) = MonthOf(date) /\ YearOf(d) = YearOf(date)
                        /\ Weekday(d) \in 0..4 })

\* the demand records of the month of the pool's date, as indices of the table
MonthRecords ==
    { n \in 1..Len(data.demand) :
        /\ data.demand[n].Year = YearOf(PoolDate)
        /\ data.demand[n].Month = MonthOf(PoolDate) }

RECURSIVE SumOver(_, _)
SumOver(set, f) ==
    IF set = {} THEN 0
    ELSE LET x == CHOOSE y \in set : TRUE IN f[x] + SumOver(set \ {x}, f)

\* the number of tasks C9 states for a product: 5 * ceil(ceil(Q * m) / B) per
\* demand record of the month
ExpectedTasks(prod) ==
    SumOver({ n \in MonthRecords : data.demand[n].Product = prod },
            [n \in 1..Len(data.demand) |->
                5 * CeilDiv(CeilDiv(data.demand[n].Quantity * dem_mult, 100),
                            WeekdaysInMonthOf(PoolDate))])

\* C9: the pool holds, for every subsystem of the time table, exactly
\* 5 * ceil(ceil(Quantity * multiplier) / B) tasks per demand record of the
\* month for its product, each with the subsystem's standard time, and no other
\* task; multiplier 1.0, Quantity 20, B = 20 and one subsystem give 5 tasks
C9_PoolSize ==
    PoolBuilt =>
        /\ \A t \in 1..Len(data.times) :
              Cardinality({ n \in 1..Len(base_tasks) :
                              /\ base_tasks[n].Product = data.times[t].Product
                              /\ base_tasks[n].Subsystem = data.times[t].Subsystem
                              /\ base_tasks[n].Time = data.times[t].Time })
              = ExpectedTasks(data.times[t].Product)
        /\ \A n \in 1..Len(base_tasks) :
              \E t \in 1..Len(data.times) :
                  /\ base_tasks[n].Product = data.times[t].Product
                  /\ base_tasks[n].Subsystem = data.times[t].Subsystem
                  /\ base_tasks[n].Time = data.times[t].Time
        /\ ( /\ dem_mult = 100
             /\ WeekdaysInMonthOf(PoolDate) = 20
             /\ Len(data.times) = 1
             /\ \E n \in MonthRecords :
                   /\ data.demand[n].Quantity = 20
                   /\ data.demand[n].Product = data.times[1].Product
                   /\ \A m \in MonthRecords :
                         data.demand[m].Product = data.times[1].Product => m = n )
           => Len(base_tasks) = 5

\* C9 witness: the scenario, a pool of 5 tasks from Quantity 20 in February
\* 2025 (20 business days) with multiplier 1.0 and one subsystem
C9_Witness ==
    /\ PoolBuilt
    /\ entry = "make_pool"
    /\ dem_mult = 100
    /\ WeekdaysInMonthOf(PoolDate) = 20
    /\ Len(data.times) = 1
    /\ Len(base_tasks) = 5

\* C10: with no demand row for the (year, month) of the week's Monday,
\* make_weekly_task_pool returns an empty pool, and generate_weekly_proposals
\* raises nothing, never enters the day scheduler, and writes one empty
\* proposal per index 1..N
C10_NoDemandEmptyProposals ==
    MonthRecords = {} =>
        /\ (entry = "make_pool" /\ pc = "done") => (base_tasks = << >> /\ raised = "")
        /\ (entry = "generate" /\ source_files = SourceTables) =>
              /\ raised = ""
              /\ pc \in {"proposal", "done"}
              /\ base_tasks = << >>
              /\ tasks = << >> /\ assignments = << >> /\ k = 0
              /\ all_assignments = << >>
              /\ files = [x \in 1..(i - 1) |-> WeekPath(monday, x)]
              /\ DOMAIN output = { WeekPath(monday, x) : x \in 1..(i - 1) }
              /\ \A f \in DOMAIN output : output[f] = << >>
              /\ pc = "done" => Len(files) = n_proposals

\* C10 witness: a call for a week of June 2025, a month without demand, has
\* returned after writing its empty proposals, two or more
C10_Witness ==
    /\ entry = "generate"
    /\ pc = "done"
    /\ MonthRecords = {}
    /\ data.demand # << >>
    /\ n_proposals >= 2
    /\ Len(files) = n_proposals
    /\ \A f \in DOMAIN output : output[f] = << >>

\* the operators that are trained for task n, in the day's available set and
\* with capacity left now
EligibleNow(n) ==
    { op \in TrainedAvailable(n) :
        op \in DOMAIN avail_min_per_op /\ avail_min_per_op[op] > 0 }

\* the (Product, Subsystem) keys of a list of Assignments
AssignedKeys(assigns) ==
    { <<assigns[n].product, assigns[n].subsystem>> : n \in 1..Len(assigns) }

\* no operator available on any of the five days of the week is trained for key
NeverEligible(key) ==
    \A d \in monday..(monday + 4) :
        d \in DOMAIN available_operators_by_day =>
            \A op \in available_operators_by_day[d] :
                ~ \E t \in 1..Len(data.training) :
                    /\ data.training[t].Operator = op
                    /\ <<data.training[t].Product, data.training[t].Subsystem>> = key

\* C11, one day: a task without trained and available operator has no
\* Assignment when the call returns and is in the remainder with its input
\* RemainingTime, and nothing is raised while the day is scheduled
C11_DayCarried ==
    /\ pc \in {"task", "op", "returned"} => raised = ""
    /\ pc = "returned" =>
          \A n \in 1..Len(tasks) :
              TrainedAvailable(n) = {} =>
                  /\ TaskKey(n) \notin AssignedKeys(assignments)
                  /\ CarriedRows(TaskKey(n)) = << tasks[n].RemainingTime >>

\* C11, the week: a (Product, Subsystem) without trained and available operator
\* on any of the five days has no Assignment and no row in a proposal
C11_WeekAbsent ==
    entry = "generate" =>
        \A t \in 1..Len(data.times) :
            NeverEligible(Key(data.times[t])) =>
                /\ Key(data.times[t]) \notin AssignedKeys(all_assignments)
                /\ \A f \in DOMAIN output : \A r \in 1..Len(output[f]) :
                      <<output[f][r].Product, output[f][r].Subsystem>> # Key(data.times[t])

\* C11, the step: a task that has no trained and available operator with capacity
\* left when it is processed is appended to the remainder unchanged, without
\* Assignment and without error; the week's Assignments and the proposal rows
\* are those of the days and nothing else
C11_Step ==
    /\ (pc = "task" /\ k <= Len(tasks) /\ EligibleNow(k) = {}) =>
          /\ remaining_rows' = Append(remaining_rows,
                 [Product |-> tasks[k].Product, Subsystem |-> tasks[k].Subsystem,
                  RemainingTime |-> tasks[k].RemainingTime])
          /\ assignments' = assignments
          /\ raised' = ""
          /\ pc' = "task" /\ k' = k + 1
    /\ (pc = "returned" /\ entry = "generate") =>
          AssignedKeys(all_assignments') = AssignedKeys(all_assignments)
                                           \cup AssignedKeys(assignments)
    /\ (pc = "day" /\ offset >= 5) =>
          { <<output'[WeekPath(monday, i)][r].Product,
              output'[WeekPath(monday, i)][r].Subsystem>> :
                r \in 1..Len(output'[WeekPath(monday, i)]) }
          = AssignedKeys(all_assignments)

\* a bound on the steps a day still takes: the tasks left, each with one step
\* per candidate operator and two of its own
DayStepsLeft ==
    LET perTask == Cardinality(Operators) + 2
    IN  IF pc = "returned" THEN 0
        ELSE (Len(tasks) + 1 - k) * perTask
             + (IF pc = "op" THEN Len(cand_ops) + 1 - j ELSE perTask - 1) + 1

\* a bound on the steps the running call still takes, 0 when it has returned
StepsLeft ==
    LET perDay  == (Len(KeyOrder) + 3) * (Cardinality(Operators) + 2)
        perProp == (DaysPerWeek + 2) * perDay
        props   == (n_proposals + 1 - i) * perProp
        days    == (DaysPerWeek - offset) * perDay
    IN  CASE pc = "done" -> 0
          [] pc = "idle" -> (MaxProposals + 3) * perProp
          [] entry = "generate" /\ pc = "proposal" -> props + perProp
          [] entry = "generate" /\ pc = "day" -> props + days + perDay
          [] entry = "generate" -> props + days + DayStepsLeft + 1
          [] OTHER -> DayStepsLeft + 1

\* a call that has not returned stands at a step of the code, each of which can
\* be taken (the guard of every step is its place in the code), and the steps
\* left are counted down to 0
RunsOn ==
    /\ StepsLeft >= 0
    /\ StepsLeft = 0 <=> pc = "done"
    /\ pc \in {"idle", "task", "op", "returned", "proposal", "day", "done"}

\* C11: a task without eligible operator on a day is no error: the day
\* completes, commits nothing for it and carries it with its input
\* RemainingTime; when that is so on all five days the task is absent from the
\* proposal and the run still completes
C11_UnschedulableCarried ==
    /\ [](C11_DayCarried /\ C11_WeekAbsent)
    /\ [][C11_Step]_vars
    /\ [](RunsOn /\ (pc = "done" /\ files # << >> => raised = ""))
    /\ [][StepsLeft' < StepsLeft]_vars

\* C11 witness: a week has been run in which op1 alone is available and nobody
\* available is trained for S2: S2 is in no row of the written proposal, which
\* holds rows of S1, and S2 ends the last day in the remainder
C11_Witness ==
    /\ entry = "generate" /\ pc = "done" /\ raised = ""
    /\ NeverEligible(<<"P1", "S2">>)
    /\ \E t \in 1..Len(data.times) : Key(data.times[t]) = <<"P1", "S2">>
    /\ \E f \in DOMAIN output :
          /\ output[f] # << >>
          /\ \A r \in 1..Len(output[f]) : output[f][r].Subsystem # "S2"
    /\ \E r \in 1..Len(remaining) : remaining[r].Subsystem = "S2"

\* the remainder of a day of generate_weekly_proposals becomes the input of
\* the next scheduled day: the remainder is stored in remaining, remaining is
\* what the next call is fed, and nothing else writes it within the week
C12_FedForward ==
    /\ (entry = "generate" /\ pc = "returned") => remaining' = remaining_rows
    /\ (entry = "generate" /\ pc \in {"task", "op"}) => remaining' = remaining
    /\ (entry = "generate" /\ pc = "day" /\ pc' = "day") => remaining' = remaining
    /\ (entry = "generate" /\ pc = "day" /\ pc' \in {"task", "returned"}) =>
          /\ remaining' = remaining
          /\ { <<tasks'[n].Product, tasks'[n].Subsystem, tasks'[n].RemainingTime>> :
                 n \in 1..Len(tasks') }
             = { <<remaining[n].Product, remaining[n].Subsystem,
                   remaining[n].RemainingTime>> : n \in 1..Len(remaining) }
          /\ Len(tasks') = Len(remaining)

\* C12 as stated: within a proposal the remainder a day returns for a
\* (Product, Subsystem) is at most the RemainingTime the day was given, and the
\* remainder is the input of the next day, so that the inputs never increase
\* from Monday to Friday
C12_NonIncreasingAsStated ==
    /\ []( (entry = "generate" /\ pc = "returned") =>
              \A n \in 1..Len(tasks) :
                  CarriedFor(TaskKey(n)) <= tasks[n].RemainingTime )
    /\ [][C12_FedForward]_vars

\* C12 amended: the remainder a day returns for a (Product, Subsystem) is at
\* most the day's input rounded to 2 decimals, so at most the input when that
\* has no more than 2 decimals, and never more than 0.005 h above it; the
\* remainder is the input of the next day
C12_NonIncreasingUpToRounding ==
    /\ []( (entry = "generate" /\ pc = "returned") =>
              \A n \in 1..Len(tasks) :
                  LET input == tasks[n].RemainingTime
                  IN  /\ CarriedFor(TaskKey(n)) <= Max(input, Round2(input))
                      /\ CarriedFor(TaskKey(n)) <= input + 50
                      /\ input % 100 = 0 => CarriedFor(TaskKey(n)) <= input )
    /\ [][C12_FedForward]_vars

\* C12 witness: a day after Monday returns, within a proposal, less than it was
\* fed for one (Product, Subsystem) that Monday had scheduled in part
C12_Witness ==
    /\ entry = "generate" /\ pc = "returned"
    /\ sd_date > monday
    /\ all_assignments # << >>
    /\ \E n \in 1..Len(tasks) :
          /\ TaskKey(n) \in AssignedKeys(all_assignments)
          /\ CarriedFor(TaskKey(n)) > 0
          /\ CarriedFor(TaskKey(n)) < tasks[n].RemainingTime

\* the proposals written so far are those of the indices 1, 2, ... in order,
\* each named by the Monday on or before target_date and its index
ProposalsInIndexOrder ==
    /\ Weekday(monday) = 0
    /\ monday <= target_date /\ target_date < monday + 7
    /\ files = [x \in 1..Len(files) |-> WeekPath(monday, x)]
    /\ DOMAIN output = { WeekPath(monday, x) : x \in 1..Len(files) }
    /\ \A x \in 1..Len(files) : \A r \in 1..Len(output[files[x]]) :
          output[files[x]][r].ProposalId = x

\* C13: a call of generate_weekly_proposals with N that finds its source
\* tables ends with exactly N proposals written, one per index 1..N, named by
\* (Monday on or before target_date, index) and listed in index order, an
\* empty one included
C13_ExactlyNProposals ==
    (entry = "generate" /\ source_files = SourceTables) =>
        /\ ProposalsInIndexOrder
        /\ pc = "done" => Len(files) = n_proposals

\* C14: when one of the five source tables is absent at a call of
\* generate_weekly_proposals, the call ends with FileNotFoundError raised to
\* the caller before the proposal loop is entered, and no proposal is written;
\* the error is never raised once a proposal has been written
C14_MissingSourceData ==
    /\ (entry = "generate" /\ source_files # SourceTables) =>
          /\ raised = "FileNotFoundError"
          /\ pc = "done"
          /\ i = 0
          /\ files = << >>
          /\ DOMAIN output = {}
          /\ base_tasks = << >> /\ assignments = << >>
    /\ raised = "FileNotFoundError" =>
          (entry = "generate" /\ source_files # SourceTables /\ files = << >>)

\* C14 witness: a call for two proposals found the products table missing, the
\* last one read, and ended with the error and nothing written
C14_Witness ==
    /\ entry = "generate"
    /\ source_files = SourceTables \ {"products"}
    /\ n_proposals = 2
    /\ raised = "FileNotFoundError"
    /\ pc = "done"
    /\ files = << >>

\* the rows of a proposal without its index
WithoutIndex(rows) ==
    [n \in 1..Len(rows) |-> [rows[n] EXCEPT !.ProposalId = 0]]

\* C15, the day: two calls of schedule_day_with_remaining made by a run with
\* the same date, task table and available operators (the training and
\* workcell tables are those of the run) returned the same Assignments and the
\* same remainder
C15_SameDaySameResult ==
    \A a, b \in 1..Len(call_log.days) :
        ( /\ call_log.days[a].date = call_log.days[b].date
          /\ call_log.days[a].tasks = call_log.days[b].tasks
          /\ call_log.days[a].available = call_log.days[b].available )
        => /\ call_log.days[a].assignments = call_log.days[b].assignments
           /\ call_log.days[a].remainder = call_log.days[b].remainder

\* C15, the proposal: two proposals of a run drawn with the same multiplier
\* were fed the same task table on every day and hold the same rows, whatever
\* their indices and whatever was generated between them
C15_SameMultiplierSameProposal ==
    \A x, y \in 1..Len(files) :
        call_log.mults[x] = call_log.mults[y] =>
            /\ WithoutIndex(output[files[x]]) = WithoutIndex(output[files[y]])
            /\ \A a \in 1..Len(call_log.days) :
                  call_log.days[a].index = x =>
                      \E b \in 1..Len(call_log.days) :
                          /\ call_log.days[b].index = y
                          /\ call_log.days[b].date = call_log.days[a].date
                          /\ call_log.days[b].tasks = call_log.days[a].tasks
                          /\ call_log.days[b].assignments = call_log.days[a].assignments
                          /\ call_log.days[b].remainder = call_log.days[a].remainder

\* C15: the schedule is a function of its inputs: the same day call gives the
\* same Assignments and remainder, and a proposal's content depends on the
\* tables, the availability and its own multiplier only
C15_Deterministic ==
    C15_SameDaySameResult /\ C15_SameMultiplierSameProposal

\* C15 witness: a run with demand uncertainty 0.1 has written two proposals
\* that happened to be drawn with the same multiplier, other than 1.0, each
\* with Assignments from two or more day calls
C15_Witness ==
    /\ entry = "generate" /\ pc = "done"
    /\ demand_uncertainty = 10
    /\ Len(files) = 2
    /\ call_log.mults[1] = call_log.mults[2]
    /\ call_log.mults[1] # 100
    /\ output[files[1]] # << >>
    /\ \E a, b \in 1..Len(call_log.days) :
          /\ call_log.days[a].index = 1 /\ call_log.days[b].index = 2
          /\ call_log.days[a].date = call_log.days[b].date
          /\ call_log.days[a].date > monday
          /\ call_log.days[a].assignments # << >>

\* the operators supplied as available for a date: none for a date the
\* mapping does not hold
SuppliedFor(date) ==
    IF date \in DOMAIN available_operators_by_day
    THEN available_operators_by_day[date] ELSE {}

\* C16: every Assignment of a proposal lies on one of the five days of the
\* week and has an operator of the set supplied for its day, none when the
\* mapping lacks the day; so has every row written; an Assignment of a day
\* call has an operator of the call's available set
C16_AvailabilityRespected ==
    /\ entry = "generate" =>
          /\ \A a \in 1..Len(Committed) :
                /\ Committed[a].start \div 1440 \in monday..(monday + 4)
                /\ Committed[a].end \div 1440 = Committed[a].start \div 1440
                /\ Committed[a].operator \in SuppliedFor(Committed[a].start \div 1440)
          /\ \A f \in DOMAIN output : \A r \in 1..Len(output[f]) :
                /\ output[f][r].Date = output[f][r].Start \div 1440
                /\ output[f][r].Operator \in SuppliedFor(output[f][r].Date)
    /\ \A a \in 1..Len(assignments) :
          /\ assignments[a].operator \in available_operators
          /\ assignments[a].start \div 1440 = sd_date

\* C16 witness: a written week in which op1, away on Thursday only, works on
\* Monday and not on Thursday, op2 works on Thursday, nobody works on Tuesday
\* (an empty set) nor on Wednesday (a date the mapping lacks), and work is left
C16_Witness ==
    /\ entry = "generate" /\ pc = "done"
    /\ monday + 2 \notin DOMAIN available_operators_by_day
    /\ SuppliedFor(monday + 1) = {}
    /\ SuppliedFor(monday + 3) = {"op2"}
    /\ remaining # << >>
    /\ \E f \in DOMAIN output :
          /\ \E r \in 1..Len(output[f]) :
                output[f][r].Date = monday /\ output[f][r].Operator = "op1"
          /\ \E r \in 1..Len(output[f]) :
                output[f][r].Date = monday + 3 /\ output[f][r].Operator = "op2"
          /\ \A r \in 1..Len(output[f]) :
                output[f][r].Date \notin {monday + 1, monday + 2}

\* the intervals a dict of occupied intervals holds for a key, none when the
\* key is not in it
OccupiedOf(dict, key) == IF key \in DOMAIN dict THEN dict[key] ELSE << >>

\* [s, e) shares no instant with an interval of the list
FreeOf(s, e, intervals) ==
    \A n \in 1..Len(intervals) : ~ Overlap(s, e, intervals[n][1], intervals[n][2])

\* the chunk (hours) the operator loop is about to try for the current task and
\* operator, and its quantized duration in minutes
ChunkNow ==
    LET left  == tasks[k].RemainingTime - scheduled_this_task_h
        avail == (avail_min_per_op[cand_ops[j]] * 10000) \div 60
    IN  IF left <= avail THEN left ELSE avail

ChunkMinutesNow == (((ChunkNow * 60) \div 10000 + 14) \div 15) * 15

\* a 15-minute-aligned interval of the chunk's quantized duration lies inside
\* the day window and is free of the operator's and of the workcell's occupied
\* intervals
CommonSlotExists ==
    \E q \in 0..(DayCapacity(sd_date) \div 15) :
        LET s == DayStart(sd_date) + 15 * q
            e == s + ChunkMinutesNow
        IN  /\ e <= DayStart(sd_date) + DayCapacity(sd_date)
            /\ FreeOf(s, e, OccupiedOf(occ_by_op, cand_ops[j]))
            /\ FreeOf(s, e, OccupiedOf(occ_by_wc, tasks[k].Workcell))

\* the operator loop passes over the current candidate without commit, for a
\* chunk of one step or more
PassedOver ==
    /\ pc = "op" /\ j <= Len(cand_ops)
    /\ scheduled_this_task_h < tasks[k].RemainingTime
    /\ avail_min_per_op[cand_ops[j]] >= 15
    /\ ChunkNow >= 2500
    /\ j' = j + 1
    /\ assignments' = assignments

\* C17: a candidate operator is passed over without commit, for a chunk of one
\* step or more, only when no 15-minute-aligned interval of the chunk's
\* quantized duration inside the day window is free of both the operator's and
\* the workcell's occupied intervals
C17_PassedOverOnlyWithoutSlot ==
    [][PassedOver => ~ CommonSlotExists]_vars

\* C18: the remainder schedule_day_with_remaining returns holds no task with
\* RemainingTime <= 0, whether the task was fully scheduled or entered the day
\* with RemainingTime <= 0, and no such task is fed to the next day
C18_NoSpentTaskCarried ==
    /\ pc = "returned" =>
          \A r \in 1..Len(remaining_rows) : remaining_rows[r].RemainingTime > 0
    /\ (entry = "generate" /\ pc \in {"day", "task", "op", "returned"}) =>
          \A r \in 1..Len(remaining) : remaining[r].RemainingTime > 0

\* the input RemainingTime of the task of the day a (Product, Subsystem) names
InputOf(key) ==
    LET n == CHOOSE n \in 1..Len(tasks) : TaskKey(n) = key
    IN  tasks[n].RemainingTime

\* the minutes of capacity an operator had when the current task started being
\* processed: what it has now and what it was given for this task since
CapacityAtTaskStart(op) ==
    avail_min_per_op[op]
    + SeqSum([a \in 1..Len(assignments) |->
                IF /\ assignments[a].operator = op
                   /\ <<assignments[a].product, assignments[a].subsystem>> = TaskKey(k)
                THEN assignments[a].end - assignments[a].start ELSE 0])

\* C19, the state: on a working day the tasks are processed in non-increasing
\* input RemainingTime, the Assignments are committed in that order, and the
\* candidate operators of the task being processed are listed in non-increasing
\* capacity as it stood when the task started
C19_GreedyState ==
    (pc \in {"task", "op", "returned"} /\ DayCapacity(sd_date) > 0) =>
        /\ \A n, m \in 1..Len(tasks) :
              n < m => tasks[n].RemainingTime >= tasks[m].RemainingTime
        /\ \A a, b \in 1..Len(assignments) :
              a < b => InputOf(<<assignments[a].product, assignments[a].subsystem>>)
                       >= InputOf(<<assignments[b].product, assignments[b].subsystem>>)
        /\ pc = "op" =>
              \A x, y \in 1..Len(cand_ops) :
                  x < y => CapacityAtTaskStart(cand_ops[x])
                           >= CapacityAtTaskStart(cand_ops[y])

\* C19, the step: tasks and candidates are taken one after the other in the
\* listed order, and a commit is for the task and the candidate being tried
C19_GreedyStep ==
    /\ (pc \in {"task", "op"} /\ k' # k) => k' = k + 1
    /\ (pc = "op" /\ pc' = "op") => (j' = j + 1 /\ cand_ops' = cand_ops)
    /\ (pc = "task" /\ pc' = "op") =>
          /\ j' = 1
          /\ \A x, y \in 1..Len(cand_ops') :
                x < y => avail_min_per_op[cand_ops'[x]] >= avail_min_per_op[cand_ops'[y]]
    /\ (pc = "op" /\ assignments' # assignments) =>
          /\ Len(assignments') = Len(assignments) + 1
          /\ SubSeq(assignments', 1, Len(assignments)) = assignments
          /\ assignments'[Len(assignments')].operator = cand_ops[j]
          /\ <<assignments'[Len(assignments')].product,
               assignments'[Len(assignments')].subsystem>> = TaskKey(k)

\* C19: within one day the commit order follows the greedy order: tasks by
\* non-increasing input RemainingTime, and within a task the candidate
\* operators by non-increasing capacity as it stood when the task started
C19_GreedyOrder ==
    []C19_GreedyState /\ [][C19_GreedyStep]_vars

\* C19 witness: the second task of a day, shorter than the first, is about to
\* try op2 before op1, against the order of the training table, because the
\* first task took capacity from op1
C19_Witness ==
    /\ pc = "op" /\ k = 2 /\ j = 1
    /\ tasks[1].RemainingTime > tasks[2].RemainingTime
    /\ assignments # << >>
    /\ cand_ops = << "op2", "op1" >>
    /\ trainings[1].Operator = "op1"
    /\ avail_min_per_op["op2"] > avail_min_per_op["op1"]

\* the Products that have a row in the time table
TimedProducts == { data.times[t].Product : t \in 1..Len(data.times) }

\* C20: make_weekly_task_pool never fails on a demand record whose Product has
\* no row in the time table: it returns a pool with tasks of Products of the
\* time table only, an empty one when no demanded Product of the month is in
\* the time table, and the proposal is then written empty
C20_UntimedProductsSkipped ==
    /\ raised # "KeyError"
    /\ PoolBuilt => \A n \in 1..Len(base_tasks) : base_tasks[n].Product \in TimedProducts
    /\ ( /\ entry = "generate" /\ source_files = SourceTables /\ pc = "done"
         /\ MonthRecords # {}
         /\ \A n \in MonthRecords : data.demand[n].Product \notin TimedProducts )
       => /\ Len(files) = n_proposals
          /\ \A f \in DOMAIN output : output[f] = << >>


\* the day calls made so far for one proposal, in the order they were made
DayCallsOf(idx) == SelectSeq(call_log.days, LAMBDA c : c.index = idx)

\* a step of the day loop at a weekday for which no operator is supplied
EmptyDayNow ==
    /\ entry = "generate" /\ pc = "day" /\ offset < 5
    /\ SuppliedFor(monday + offset) = {}

\* C21: a weekday of the week whose available-operator set is empty is passed
\* without a call of the day scheduler: no Assignment is added, the remainder
\* is left as it was and the loop goes to the next day; so every Assignment of
\* the proposal lies on a day with operators, and the task table of each day
\* call after the first is the remainder of the call before it, all the days
\* between the two being days without operators; a day call made with an
\* empty set assigns nothing and returns its task table
C21_EmptyDayPassesThrough ==
    /\ [][ EmptyDayNow =>
              /\ remaining' = remaining
              /\ all_assignments' = all_assignments
              /\ call_log' = call_log
              /\ UNCHANGED sdVars
              /\ offset' = offset + 1 /\ pc' = "day" ]_vars
    /\ []( entry = "generate" =>
              /\ \A a \in 1..Len(Committed) :
                    SuppliedFor(Committed[a].start \div 1440) # {}
              /\ \A idx \in 1..MaxProposals :
                    LET calls == DayCallsOf(idx)
                    IN  \A c \in 1..Len(calls) :
                          /\ calls[c].available # {}
                          /\ c > 1 =>
                                /\ calls[c].tasks = calls[c - 1].remainder
                                /\ calls[c].date > calls[c - 1].date
                                /\ \A d \in (calls[c - 1].date + 1)..(calls[c].date - 1) :
                                      SuppliedFor(d) = {} )
    /\ []( (entry = "schedule_day" /\ available_operators = {}) =>
              /\ assignments = << >>
              /\ pc = "returned" =>
                    /\ Len(remaining_rows) = Len(tasks)
                    /\ \A n \in 1..Len(tasks) :
                          /\ remaining_rows[n].Product = tasks[n].Product
                          /\ remaining_rows[n].Subsystem = tasks[n].Subsystem
                          /\ remaining_rows[n].RemainingTime = tasks[n].RemainingTime )

\* C21 witness: in one proposal Monday left work, Tuesday (an empty set) and
\* Wednesday were passed, and Thursday's call was given Monday's remainder and
\* scheduled some of it
C21_Witness ==
    /\ entry = "generate" /\ pc = "done"
    /\ \E idx \in 1..MaxProposals :
          LET calls == DayCallsOf(idx)
          IN  /\ Len(calls) >= 2
              /\ calls[1].date = monday /\ calls[2].date = monday + 3
              /\ monday + 1 \in DOMAIN available_operators_by_day
              /\ SuppliedFor(monday + 1) = {}
              /\ calls[1].remainder # << >>
              /\ calls[2].tasks = calls[1].remainder
              /\ calls[2].assignments # << >>


\* the standard time the pool holds for a (Product, Subsystem), all its tasks
\* together
PoolTimeOf(key) ==
    LET rows == SelectSeq(base_tasks, LAMBDA r : r.Product = key[1] /\ r.Subsystem = key[2])
    IN  SeqSum([n \in 1..Len(rows) |-> rows[n].Time])

\* a table has one row per (Product, Subsystem) of the pool, with the pool's
\* time for it
IsPoolAggregate(table) ==
    /\ \A a, b \in 1..Len(table) :
          (table[a].Product = table[b].Product /\ table[a].Subsystem = table[b].Subsystem)
              => a = b
    /\ { <<table[n].Product, table[n].Subsystem>> : n \in 1..Len(table) }
       = { <<base_tasks[n].Product, base_tasks[n].Subsystem>> : n \in 1..Len(base_tasks) }
    /\ \A n \in 1..Len(table) :
          table[n].RemainingTime = PoolTimeOf(<<table[n].Product, table[n].Subsystem>>)

\* the steps of the week of one proposal
C22_WeekStep ==
    entry = "generate" =>
        /\ (pc = "proposal" /\ pc' = "day") =>
              /\ offset' = 0 /\ all_assignments' = << >>
              /\ IsPoolAggregate(remaining)'
        /\ (pc = "day" /\ pc' # "day" /\ pc' # "proposal") =>
              /\ pc' = "task"
              /\ offset' = offset /\ offset < 5
              /\ sd_date' = monday + offset
              /\ remaining # << >> /\ remaining' = remaining
              /\ Len(tasks') = Len(remaining)
              /\ { <<tasks'[n].Product, tasks'[n].Subsystem, tasks'[n].RemainingTime>> :
                     n \in 1..Len(tasks') }
                 = { <<remaining[n].Product, remaining[n].Subsystem,
                       remaining[n].RemainingTime>> : n \in 1..Len(remaining) }
              /\ assignments' = << >>
              /\ DOMAIN avail_min_per_op' = SuppliedFor(sd_date')
              /\ \A op \in DOMAIN avail_min_per_op' :
                    avail_min_per_op'[op] = DayCapacity(sd_date')
              /\ DOMAIN occ_by_op' = SuppliedFor(sd_date')
              /\ \A op \in DOMAIN occ_by_op' : occ_by_op'[op] = << >>
              /\ DOMAIN occ_by_wc' = {}
        /\ pc = "returned" =>
              /\ pc' = "day" /\ offset' = offset + 1
              /\ remaining' = remaining_rows
              /\ all_assignments' = all_assignments \o assignments
        /\ (pc = "day" /\ pc' = "day") =>
              /\ offset' = offset + 1
              /\ remaining' = remaining /\ all_assignments' = all_assignments
        /\ (pc = "day" /\ remaining = << >>) => pc' \in {"day", "proposal"}
        /\ (pc = "day" /\ pc' = "proposal") => offset = 5

\* the dates of a sequence of Assignments or rows never go back
DatesInOrder(dates) == \A a, b \in 1..Len(dates) : a < b => dates[a] <= dates[b]

\* C22: within one proposal the day scheduler is called at most once per
\* weekday, in the order Monday to Friday, on the days that have operators
\* while work is left; the first call is given the pool summed per (Product,
\* Subsystem), each later call the remainder the call before it returned;
\* every call starts with the day's full capacity for each supplied operator
\* and no occupied interval; the Assignments of an earlier day stand before
\* those of a later day in the proposal; once the remainder is empty no later
\* day is scheduled
C22_SequentialWeek ==
    /\ [][C22_WeekStep]_vars
    /\ []( entry = "generate" =>
              /\ pc \in {"task", "op", "returned"} => sd_date = monday + offset
              /\ DatesInOrder([a \in 1..Len(Committed) |-> Committed[a].start \div 1440])
              /\ \A f \in DOMAIN output :
                    DatesInOrder([r \in 1..Len(output[f]) |-> output[f][r].Date])
              /\ \A idx \in 1..MaxProposals :
                    LET calls == DayCallsOf(idx)
                    IN  \A c \in 1..Len(calls) :
                          /\ calls[c].date \in monday..(monday + 4)
                          /\ calls[c].tasks # << >>
                          /\ \A a \in 1..Len(calls[c].assignments) :
                                calls[c].assignments[a].start \div 1440 = calls[c].date
                          /\ c > 1 =>
                                /\ calls[c - 1].date < calls[c].date
                                /\ calls[c - 1].remainder = calls[c].tasks )

\* C22 witness: a written proposal whose week had the five day calls, the
\* Assignments of three different days in it, one operator working on two of
\* the days from 08:00
C22_Witness ==
    /\ entry = "generate" /\ pc = "done"
    /\ \E idx \in 1..MaxProposals :
          /\ Len(DayCallsOf(idx)) = 5
          /\ \A c \in 1..3 : DayCallsOf(idx)[c].assignments # << >>
          /\ \E a \in 1..Len(DayCallsOf(idx)[1].assignments),
                b \in 1..Len(DayCallsOf(idx)[2].assignments) :
                /\ DayCallsOf(idx)[1].assignments[a].operator
                      = DayCallsOf(idx)[2].assignments[b].operator
                /\ DayCallsOf(idx)[1].assignments[a].start = DayStart(monday)
                /\ DayCallsOf(idx)[2].assignments[b].start = DayStart(monday + 1)


\* the Assignments committed for the task the operator loop stands at
ChunksOfTask ==
    SelectSeq(assignments,
              LAMBDA a : a.product = tasks[k].Product /\ a.subsystem = tasks[k].Subsystem)

\* C23: on a day the time scheduled for a task is less than a scheduling step
\* (15 minutes, 0.25 h) above the task's input RemainingTime: so is the sum
\* kept while the task's operators are gone through, which is the sum of the
\* durations of the task's Assignments, and so is the sum of the returned
\* Assignments per task; the time scheduled before the last Assignment of a
\* task is below the input, and nothing more is committed for a task once
\* its scheduled time has reached the input
C23_OverscheduleBelowOneStep ==
    /\ []( pc = "op" =>
              /\ scheduled_this_task_h = ScheduledFor(assignments, TaskKey(k))
              /\ scheduled_this_task_h - tasks[k].RemainingTime < AsHours(15)
              /\ ChunksOfTask # << >> =>
                    scheduled_this_task_h - ChunksOfTask[Len(ChunksOfTask)].duration_h
                        < tasks[k].RemainingTime )
    /\ []( pc = "returned" =>
              \A n \in 1..Len(tasks) :
                  ScheduledFor(assignments, TaskKey(n)) - tasks[n].RemainingTime
                      < AsHours(15) )
    /\ [][ (pc = "op" /\ scheduled_this_task_h >= tasks[k].RemainingTime) =>
              (assignments' = assignments /\ pc' = "task") ]_vars

\* C23 witness: the second task of a day, of 1.337 h, got an Assignment of
\* 1.5 h, which took its scheduled time above its input RemainingTime, and
\* an operator is still to be gone through
C23_Witness ==
    /\ pc = "op" /\ k = 2
    /\ j <= Len(cand_ops)
    /\ tasks[k].RemainingTime = 13370
    /\ ChunksOfTask # << >>
    /\ scheduled_this_task_h = AsHours(90)
    /\ scheduled_this_task_h > tasks[k].RemainingTime


\* the intervals follow one another from 08:00 of the date without a gap
GapFreeFrom(intervals, date) ==
    \A n \in 1..Len(intervals) :
        /\ intervals[n][1] < intervals[n][2]
        /\ intervals[n][1] = IF n = 1 THEN DayStart(date) ELSE intervals[n - 1][2]

\* the minutes an operator's occupied intervals cover
BlockMinutes(intervals) ==
    SeqSum([n \in 1..Len(intervals) |-> intervals[n][2] - intervals[n][1]])

\* the intervals of the day's Assignments of an operator
IntervalsOfOperator(op) ==
    { <<assignments[a].start, assignments[a].end>> :
        a \in { x \in 1..Len(assignments) : assignments[x].operator = op } }

\* C24: while a weekday is scheduled and when it returns, the occupied
\* intervals of each available operator are the intervals of the operator's
\* Assignments of the day and form one block without a gap that starts at
\* 08:00, so that they cover [08:00, 08:00 + minutes used); the operator's
\* capacity counter is the day capacity less the length of the block, and is
\* never negative
C24_GapFreeBlock ==
    (pc \in {"task", "op", "returned"} /\ Weekday(sd_date) < 5) =>
        /\ DOMAIN occ_by_op = available_operators
        /\ DOMAIN avail_min_per_op = available_operators
        /\ \A op \in available_operators :
              /\ GapFreeFrom(occ_by_op[op], sd_date)
              /\ { occ_by_op[op][n] : n \in 1..Len(occ_by_op[op]) } = IntervalsOfOperator(op)
              /\ Len(occ_by_op[op])
                    = Cardinality({ a \in 1..Len(assignments) : assignments[a].operator = op })
              /\ avail_min_per_op[op] = DayCapacity(sd_date) - BlockMinutes(occ_by_op[op])
              /\ avail_min_per_op[op] >= 0
              /\ occ_by_op[op] # << >> =>
                    occ_by_op[op][Len(occ_by_op[op])][2]
                        = DayStart(sd_date) + BlockMinutes(occ_by_op[op])

\* C24 witness: a weekday returned with an operator who has two Assignments,
\* the first from 08:00 and the second from the end of the first, and
\* capacity left
C24_Witness ==
    /\ pc = "returned" /\ Weekday(sd_date) < 5
    /\ \E op \in available_operators :
          /\ Len(occ_by_op[op]) >= 2
          /\ occ_by_op[op][1][1] = DayStart(sd_date)
          /\ occ_by_op[op][2][1] = occ_by_op[op][1][2]
          /\ avail_min_per_op[op] > 0


\* the demand records of the (year, month) of a date, as indices of the table
RecordsOfMonthOf(date) ==
    { n \in 1..Len(data.demand) :
        /\ data.demand[n].Year = YearOf(date)
        /\ data.demand[n].Month = MonthOf(date) }

\* the number of tasks per subsystem of a product in a pool built from the
\* demand and the business days of the month of a date
TasksFromMonthOf(date, prod) ==
    SumOver({ n \in RecordsOfMonthOf(date) : data.demand[n].Product = prod },
            [n \in 1..Len(data.demand) |->
                5 * CeilDiv(CeilDiv(data.demand[n].Quantity * dem_mult, 100),
                            WeekdaysInMonthOf(date))])

\* C25: the pool of a proposal is built from the demand records and the
\* business-day count of the (year, month) of the week's Monday, the Monday on
\* or before the target date, whatever the month of the target date; for a
\* target date of Tuesday 1 April 2025 that is March 2025 with its 21 business
\* days; every Assignment of the proposal, on any of the five days Monday to
\* Friday and in whichever month the day falls, is for a (Product, Subsystem)
\* of that pool
C25_PoolOfMondayMonth ==
    entry = "generate" =>
        /\ source_files = SourceTables =>
              /\ monday = target_date - Weekday(target_date)
              /\ target_date = MkDate(2025, 4, 1) =>
                    /\ monday = MkDate(2025, 3, 31)
                    /\ WeekdaysInMonthOf(monday) = 21
        /\ PoolBuilt =>
              /\ \A t \in 1..Len(data.times) :
                    Cardinality({ n \in 1..Len(base_tasks) :
                                    /\ base_tasks[n].Product = data.times[t].Product
                                    /\ base_tasks[n].Subsystem = data.times[t].Subsystem })
                    = TasksFromMonthOf(monday, data.times[t].Product)
              /\ RecordsOfMonthOf(monday) = {} => base_tasks = << >>
        /\ (PoolBuilt /\ pc \in {"day", "task", "op", "returned"}) =>
              \A a \in 1..Len(Committed) :
                  /\ Committed[a].start \div 1440 \in monday..(monday + 4)
                  /\ \E n \in 1..Len(base_tasks) :
                        /\ base_tasks[n].Product = Committed[a].product
                        /\ base_tasks[n].Subsystem = Committed[a].subsystem

\* C25 witness: a proposal written for the target date 1 April 2025, for
\* which there is demand in March and none in April, holds work on Monday 31
\* March and on days of April
C25_Witness ==
    /\ entry = "generate" /\ pc = "done" /\ raised = ""
    /\ target_date = MkDate(2025, 4, 1)
    /\ MonthOf(monday) = 3 /\ MonthOf(target_date) = 4
    /\ RecordsOfMonthOf(target_date) = {}
    /\ RecordsOfMonthOf(monday) # {}
    /\ \E f \in DOMAIN output :
          /\ \E r \in 1..Len(output[f]) : output[f][r].Date = monday
          /\ \E r \in 1..Len(output[f]) : MonthOf(output[f][r].Date) = 4
          /\ \E r \in 1..Len(output[f]) : output[f][r].Date = monday + 4

====
